---- MODULE Spec2Model ----
(***************************************************************************)
(* Model of the request/cache orchestration core of fairlight:             *)
(*   Api               (src/unnamed/part_006, lines 1-180)                 *)
(*   ApiRequestManager (src/src/api/request-manager/index.tsx)             *)
(*   GenericCache      (src/src/api/generic-cache.tsx)                     *)
(*   getParamsId & co  (src/src/api/lib.tsx)                               *)
(*                                                                         *)
(* JavaScript runs the core on one thread; the only suspension points are  *)
(* the two awaits of the network path (the await of Transport in           *)
(* fetchResponseBody and the await of fetchResponseBody in                 *)
(* createRequestPromise).  Every action below is the code that runs        *)
(* between two suspension points.                                          *)
(***************************************************************************)
EXTENDS Integers, Sequences, FiniteSets, TLC

(***************************************************************************)
(* Bounds of the model                                                     *)
(***************************************************************************)
\* network paths (createRequestPromise activations) started in one behaviour
MaxRequests == 2

(***************************************************************************)
(* State                                                                   *)
(***************************************************************************)
VARIABLES
  defaultFetchPolicy,      \* ApiRequestManager.defaultFetchPolicy
  responseBodyCache,       \* Api.responseBodyCache
  inProgressRequestCache,  \* ApiRequestManager.inProgressRequestCache
  requests,                \* network paths; the index is the id symbol and
                           \* the promise of createRequestPromise
  microtasks,              \* the network paths whose fetchResponseBody has
                           \* ended and whose createRequestPromise is queued
                           \* to resume, in the order of the job queue
  output,                  \* what the latest step returned and emitted
  parseResponseJsonHook,   \* ApiRequestManager.parseResponseJson
  defaultHeaders,          \* ApiRequestManager.defaultHeaders
  emitter,                 \* Api.emitter: the listeners of every event,
                           \* in the order in which they were added
  numOccurringMutations,   \* the state of useIsMutating
  mutations,               \* the invocations of mutate of useApiMutation
  queryState,              \* the state of useApiQueryReducer
  sharedPromises           \* the application: the unsettled promises it
                           \* holds from deduplicated calls that joined a
                           \* request in flight, each with the fetch
                           \* policy of the call

(***************************************************************************)
(* JavaScript values                                                       *)
(***************************************************************************)
Undefined == "undefined"

\* Response bodies are records of one shape; v = 0 is the empty text / null.
Null == [type |-> "null", v |-> 0]
EmptyText == [type |-> "text", v |-> 0]
Obj(n) == [type |-> "json", v |-> n]

\* An optional array or object of a descriptor (headers, successCodes):
\* left out, or given with its entries in order.
Absent == [defined |-> FALSE, entries |-> <<>>]
Given(entries) == [defined |-> TRUE, entries |-> entries]

\* An entry of a successCodes array: a number, or something else that the
\* caller put there (v is then what it would be as a number).
Num(n) == [type |-> "number", v |-> n]
Str(n) == [type |-> "string", v |-> n]

\* Header names and values are texts: sequences of characters.
charCode(c) ==
  CASE c = "-" -> 45 [] c = "1" -> 49 [] c = "2" -> 50 [] c = ":" -> 58
    [] c = ";" -> 59 [] c = "A" -> 65 [] c = "B" -> 66 [] c = "C" -> 67
    [] c = "T" -> 84 [] c = "a" -> 97 [] c = "b" -> 98 [] c = "c" -> 99
    [] c = "e" -> 101 [] c = "n" -> 110 [] c = "o" -> 111 [] c = "p" -> 112
    [] c = "t" -> 116 [] c = "y" -> 121

\* the order of Array.prototype.sort without a comparator on texts
RECURSIVE textLess(_, _)
textLess(x, y) ==
  IF y = <<>> THEN FALSE
  ELSE IF x = <<>> THEN TRUE
  ELSE IF Head(x) # Head(y) THEN charCode(Head(x)) < charCode(Head(y))
  ELSE textLess(Tail(x), Tail(y))

\* JavaScript truthiness of a value stored in a GenericCache
Truthy(x) == x # Null /\ x # EmptyText

(***************************************************************************)
(* src/src/api/constants.tsx                                               *)
(***************************************************************************)
READ_CACHE_POLICIES == {"cache-first", "cache-only", "cache-and-fetch"}
FETCH_FIRST_BY_DEFAULT == "fetch-first"
DEFAULT_FETCH_POLICY == "no-cache"
DEFAULT_REQUEST_METHOD == "GET"

ApiRequestMethod == {"GET", "POST", "PUT", "PATCH", "DELETE"}
ApiRequestFetchPolicy ==
  {"no-cache", "cache-first", "fetch-first", "cache-only", "cache-and-fetch"}

(***************************************************************************)
(* src/src/api/generic-cache.tsx: a Map is a function whose domain is the  *)
(* set of keys that are present.                                           *)
(***************************************************************************)
EmptyMap == [k \in {} |-> Null]

has(cache, key) == key \in DOMAIN cache

\* `this.valuesByCacheKey.get(key) || null`
get(cache, key) ==
  IF key \in DOMAIN cache /\ Truthy(cache[key]) THEN cache[key] ELSE Null

\* a `set` that leaves the value of a key that has one
setIfAbsent(cache, key, value) ==
  [k \in (DOMAIN cache) \cup {key} |->
     IF k \in DOMAIN cache THEN cache[k] ELSE value]

\* `this.valuesByCacheKey.set(key, value)`
set(cache, key, value) ==
  [k \in (DOMAIN cache) \cup {key} |-> IF k = key THEN value ELSE cache[k]]

del(cache, key) == [k \in (DOMAIN cache) \ {key} |-> cache[k]]

(***************************************************************************)
(* src/src/api/lib.tsx                                                     *)
(***************************************************************************)
\* header names kept as they are written
keepCase(name) == name

\* String.prototype.toLowerCase on the characters of the model
toLowerCase(name) ==
  [i \in 1..Len(name) |->
     CASE name[i] = "A" -> "a" [] name[i] = "B" -> "b" [] name[i] = "C" -> "c"
       [] name[i] = "T" -> "t" [] OTHER -> name[i]]

\* The entries of an ApiHeaders object are <<name, value>> in insertion
\* order; the result maps lower-case names to values, a later entry
\* replacing an earlier one of the same lower-case name.
RECURSIVE applyHeaders(_, _)
applyHeaders(prevHeaders, apiHeaders) ==
  IF apiHeaders = <<>> THEN prevHeaders
  ELSE applyHeaders(set(prevHeaders, toLowerCase(Head(apiHeaders)[1]),
                        Head(apiHeaders)[2]),
                    Tail(apiHeaders))

\* `headerPairs.sort()` then `headerPairs.join('')`
RECURSIVE sortJoin(_)
sortJoin(headerPairs) ==
  IF headerPairs = {} THEN <<>>
  ELSE LET first == CHOOSE x \in headerPairs :
                      \A y \in headerPairs : ~textLess(y, x)
       IN first \o sortJoin(headerPairs \ {first})

\* '' without headers, else the `name:value;` pairs of the applied headers,
\* sorted and joined
serializeHeaders(paramHeaders) ==
  IF ~paramHeaders.defined THEN <<>>
  ELSE LET headers == applyHeaders(EmptyMap, paramHeaders.entries)
       IN sortJoin({ name \o <<":">> \o headers[name] \o <<";">> :
                       name \in DOMAIN headers })

\* '' without successCodes, else the JSON text of the numbers of the array
\* without duplicates, sorted: a canonical text of their set, which stands
\* for it here.
serializeSuccessCodes(successCodes) ==
  IF ~successCodes.defined THEN <<>>
  ELSE <<{ successCodes.entries[i].v :
             i \in { j \in DOMAIN successCodes.entries :
                       successCodes.entries[j].type = "number" } }>>

\* a key that also holds the default headers of the moment
getParamsIdWithDefaults(params) ==
  << IF params.method = Undefined THEN DEFAULT_REQUEST_METHOD
                                  ELSE params.method,
     params.url,
     IF params.responseType = Undefined THEN "" ELSE params.responseType,
     serializeHeaders(params.headers),
     params.extraKey,
     serializeSuccessCodes(params.successCodes),
     defaultHeaders >>

\* a key that also holds the body
getParamsIdWithBody(params) ==
  << IF params.method = Undefined THEN DEFAULT_REQUEST_METHOD
                                  ELSE params.method,
     params.url,
     IF params.responseType = Undefined THEN "" ELSE params.responseType,
     serializeHeaders(params.headers),
     params.extraKey,
     serializeSuccessCodes(params.successCodes),
     params.body >>

getParamsId(params) ==
  << IF params.method = Undefined THEN DEFAULT_REQUEST_METHOD
                                  ELSE params.method,
     params.url,
     IF params.responseType = Undefined THEN "" ELSE params.responseType,
     serializeHeaders(params.headers),
     params.extraKey,
     serializeSuccessCodes(params.successCodes) >>

genCacheUpdateEvent(params) == <<"cacheUpdate", getParamsId(params)>>

(***************************************************************************)
(* Inputs of the model                                                     *)
(***************************************************************************)
Descriptor(method, url, body) ==
  [method |-> method, url |-> url, responseType |-> Undefined,
   headers |-> Absent, extraKey |-> Undefined,
   successCodes |-> Absent, body |-> body]

\* one descriptor per method, and one with the method left out
MethodDescriptors ==
  { Descriptor(m, "/a", Undefined) : m \in ApiRequestMethod \cup {Undefined} }

\* a GET, for the fetch policies and the response cache
CacheDescriptors == { Descriptor("GET", "/a", Undefined) }

\* a POST with an object body, which goes through the serialize hook
HookDescriptors == { Descriptor("POST", "/a", "object") }

\* a GET without successCodes, with an empty successCodes array, and with
\* one that lists a status outside 200..299 and leaves 200 out
ClassifyDescriptors ==
  { [Descriptor("GET", "/a", Undefined) EXCEPT !.successCodes = codes] :
      codes \in {Absent, Given(<<>>), Given(<<Num(201), Num(404)>>)} }

Descriptors ==
  MethodDescriptors \cup CacheDescriptors \cup HookDescriptors
    \cup ClassifyDescriptors

Keys == { getParamsId(params) : params \in Descriptors }

\* ApiRequestOptions; "true"/"false" stand for the booleans
ApiRequestOptions ==
  [fetchPolicy : ApiRequestFetchPolicy \cup {Undefined},
   deduplicate : {"true", "false", Undefined}]

\* `defaultFetchPolicy` given to the constructor
ConstructorFetchPolicies == {Undefined}

\* what Transport can answer to the network path with identity id: a JSON
\* object of its own or an empty text body, with a success or a failure status
bodyTypeOf(body) == IF body = Null THEN "null" ELSE body.type

RequestFetcherResponses(id) ==
  [status : {200, 404}, body : {Obj(id), EmptyText}]

\* bodies written by hand through Api.writeCachedResponse
ManualBodies == {Obj(100), EmptyText}

vars == <<defaultFetchPolicy, responseBodyCache, inProgressRequestCache,
          requests, microtasks, output, parseResponseJsonHook,
          defaultHeaders, emitter, numOccurringMutations, mutations,
          queryState, sharedPromises>>

\* what the constructor fixes
constructed == <<defaultFetchPolicy, parseResponseJsonHook>>

\* the state of the useApiMutation and useApiQuery hooks
hookState == <<numOccurringMutations, mutations, queryState>>

\* the state the useApiQuery reducer starts from; `id: null` is written 0
\* and `paramsId: null` is written "null"
NoId == 0
NoParamsId == "null"
INITIAL_STATE ==
  [id |-> NoId, paramsId |-> NoParamsId, loading |-> FALSE, data |-> Null,
   error |-> Null]

RequestIds == 1..Len(requests)

\* outcomes of fetchResponseBody
Pending == [state |-> "pending", body |-> Null, error |-> "none", status |-> 0]
Fulfilled(body) ==
  [state |-> "fulfilled", body |-> body, error |-> "none", status |-> 0]
Rejected(error, status, body) ==
  [state |-> "rejected", body |-> body, error |-> error, status |-> status]

\* what getResponse of Transport is given: the header object, and the body
\* with whether it is the JSON text of the body of the descriptor
SentBody(body, stringified) == [value |-> body, stringified |-> stringified]

\* which object a header map is: the one `this.defaultHeaders` holds, or
\* one created during a call
FRESH == "fresh"
DEFAULT_HEADERS == "defaultHeaders"

NotSent ==
  [headers |-> EmptyMap, body |-> SentBody(Undefined, FALSE),
   object |-> FRESH]

\* A network path whose promise has settled: the model keeps whose it was
\* and how it settled, nothing of it is read again.
\* a promise that stays as it is when createRequestPromise returns
StaysUnsettled(request_) == request_

\* the network path after the promise of createRequestPromise has settled
Settled(request_) ==
  [params |-> request_.params, fetchPolicy |-> Undefined,
   background |-> FALSE,
   sent |-> NotSent,
   fetch |-> [state |-> request_.fetch.state, body |-> Null,
              error |-> "none", status |-> 0],
   settled |-> TRUE]

\* Transport has been invoked for the network path and has not answered
TransportPending(id) == requests[id].fetch.state = "pending"

\* the promise of the network path has not settled
Unsettled(id) == ~requests[id].settled

\* values a call returns
NothingReturned == [kind |-> "none", promise |-> 0, value |-> Null]
ReturnedPromise(id) == [kind |-> "network", promise |-> id, value |-> Null]
ReturnedCached(body) == [kind |-> "cached", promise |-> 0, value |-> body]
ReturnedCacheMiss == [kind |-> "cache-miss", promise |-> 0, value |-> Null]

\* the network path that resumed in the step, the fetch policy it is
\* running under, and whether Api.request started it as a background refresh
NoPath == [id |-> 0, fetchPolicy |-> Undefined, background |-> FALSE]
Path(id) ==
  [id |-> id, fetchPolicy |-> requests[id].fetchPolicy,
   background |-> requests[id].background]

\* EventEmitter.emit: the listeners of the event are called one after the
\* other in the order in which they were added
ERROR_EVENT == <<"error">>

\* an emitter that calls the listener added last first
listenersLastFirst(event) ==
  IF event \in DOMAIN emitter
    THEN [i \in 1..Len(emitter[event]) |->
            emitter[event][Len(emitter[event]) + 1 - i]]
    ELSE <<>>

listeners(event) ==
  IF event \in DOMAIN emitter THEN emitter[event] ELSE <<>>

emit(event, value) ==
  [i \in 1..Len(listeners(event)) |->
     [listener |-> listeners(event)[i], event |-> event, value |-> value]]

\* the calls of listeners made by a step that emits the cache updates and
\* the errors given (a step emits at most one of each)
RECURSIVE emitAll(_, _)
emitAll(event, values) ==
  IF values = <<>> THEN <<>>
  ELSE emit(IF event = ERROR_EVENT THEN ERROR_EVENT ELSE Head(values).event,
            IF event = ERROR_EVENT THEN Head(values) ELSE Head(values).body)
         \o emitAll(event, Tail(values))

Output(ret, path, updates, errors) ==
  [returned |-> ret, resumed |-> path, cacheUpdates |-> updates,
   errors |-> errors,
   invoked |-> emitAll(<<"cacheUpdate">>, updates)
                 \o emitAll(ERROR_EVENT, errors),
   mutated |-> {}]

\* `params.defaultFetchPolicy || DEFAULT_FETCH_POLICY`
constructedFetchPolicy(p) == IF p = Undefined THEN DEFAULT_FETCH_POLICY ELSE p

\* the state after `new Api(params)` and the first render of a component
\* that calls useApiMutation, for the parseResponseJson hooks given
Constructed(parseResponseJsonHooks) ==
  /\ defaultFetchPolicy \in
       { constructedFetchPolicy(p) : p \in ConstructorFetchPolicies }
  /\ parseResponseJsonHook \in parseResponseJsonHooks
  /\ responseBodyCache = EmptyMap
  /\ inProgressRequestCache = EmptyMap
  /\ defaultHeaders = EmptyMap
  /\ emitter = EmptyMap
  /\ requests = <<>>
  /\ microtasks = <<>>
  /\ numOccurringMutations = 0
  /\ mutations = <<>>
  /\ queryState = INITIAL_STATE
  /\ sharedPromises = {}
  /\ output = [returned |-> NothingReturned, resumed |-> NoPath,
               cacheUpdates |-> <<>>, errors |-> <<>>, invoked |-> <<>>,
               mutated |-> {}]

\* the parseResponseJson hook is the default one, `identity`
Init == Constructed({"identity"})

(***************************************************************************)
(* src/src/api/request-manager/index.tsx                                   *)
(***************************************************************************)
\* `params.method === 'GET' ? true : false`
defaultDeduplicate(params) == params.method = "GET"

\* a getResponseBody that ignores `options.deduplicate`
deduplicateByMethodOnly(params, options) == defaultDeduplicate(params)

\* `options.deduplicate ?? defaultDeduplicate(params)`
deduplicate(params, options) ==
  IF options.deduplicate = Undefined THEN defaultDeduplicate(params)
  ELSE options.deduplicate = "true"

\* a getResponseBody that never looks at the in-flight entry
neverJoinsInFlight(cachedRequest, dedup) == FALSE

\* `if (cachedRequest && deduplicate)`: the call is handed the promise of
\* the in-flight entry instead of starting a network path
joinsInFlight(cachedRequest, dedup) == Truthy(cachedRequest) /\ dedup

\* `const {fetchPolicy = this.defaultFetchPolicy} = options`
effectiveFetchPolicy(options) ==
  IF options.fetchPolicy = Undefined THEN defaultFetchPolicy
  ELSE options.fetchPolicy

\* the name and the value of the header getRequestHeadersAndBody sets for
\* a JSON body; the value is written as one symbol
CONTENT_TYPE ==
  <<"c", "o", "n", "t", "e", "n", "t", "-", "t", "y", "p", "e">>
APPLICATION_JSON == <<"application/json">>

\* getRequestHeadersAndBody runs the serializeRequestJson hook and
\* JSON.stringify for the body of a POST/PATCH/PUT/DELETE that is truthy,
\* is not an instance of Blob, FormData, URLSearchParams or ReadableStream
\* and is not a string.  A body is known by its kind: Undefined,
\* "empty-string", "string", "object", "Blob", "BufferSource", "FormData",
\* "URLSearchParams", "ReadableStream".
serializesJson(params) ==
  /\ params.method \in {"POST", "PATCH", "PUT", "DELETE"}
  /\ params.body \notin {Undefined, "empty-string"}
  /\ params.body \notin {"Blob", "FormData", "URLSearchParams",
                          "ReadableStream"}
  /\ params.body # "string"

\* a merge that leaves the headers of the descriptor out
mergedHeadersDefaultsOnly(params) == defaultHeaders

\* `cloneHeaders(this.defaultHeaders)`, then `applyHeaders(headers,
\* params.headers)` when the descriptor has headers
mergedHeaders(params) ==
  IF params.headers.defined
    THEN applyHeaders(defaultHeaders, params.headers.entries)
    ELSE defaultHeaders

\* getRequestHeadersAndBody
getRequestHeadersAndBody(params) ==
  IF serializesJson(params)
    THEN [headers |-> set(mergedHeaders(params), CONTENT_TYPE,
                          APPLICATION_JSON),
          body |-> SentBody(params.body, TRUE)]
    ELSE [headers |-> mergedHeaders(params),
          body |-> SentBody(IF params.method \in {"POST", "PATCH", "PUT",
                                                  "DELETE"}
                              THEN params.body ELSE Undefined,
                            FALSE)]

(***************************************************************************)
(* The objects of the caller that a call writes to                         *)
(***************************************************************************)
\* the objects a descriptor holds, by the property that holds them; every
\* other object (the default headers, an object created during the call)
\* is not the caller's
CallerObjects == {"headers", "successCodes", "body"}

\* an object: which one it is, and what it holds
Ref(ref, value) == [ref |-> ref, value |-> value]

\* the objects of the caller as a call finds them
heapOf(params) ==
  [headers |-> params.headers, successCodes |-> params.successCodes,
   body |-> params.body, defaultHeaders |-> defaultHeaders]

\* an assignment into an object: it shows in the objects that outlive the
\* call, those of the caller and the default headers
write(heap, ref, value) ==
  IF ref \in DOMAIN heap THEN [heap EXCEPT ![ref] = value] ELSE heap

\* a filter that takes the entries out of the array it is called on
filterInPlace(array, kept) == Ref(array.ref, kept)

\* Array.prototype.filter: a new array that holds the entries kept
filter(array, kept) == Ref(FRESH, kept)

\* `self.indexOf(value) === index`: the first occurrence of every entry
RECURSIVE firstOccurrences(_)
firstOccurrences(entries) ==
  IF entries = <<>> THEN <<>>
  ELSE LET front == SubSeq(entries, 1, Len(entries) - 1)
           last == entries[Len(entries)]
       IN IF \E i \in DOMAIN front : front[i] = last
            THEN firstOccurrences(front)
            ELSE Append(firstOccurrences(front), last)

\* uniqueCodes
uniqueCodes(codes) == filter(codes, firstOccurrences(codes.value))

\* the entries in the order `sort()` puts them in: the order of their
\* texts, which for the three-digit numbers of the model is the order of
\* the numbers
RECURSIVE sortedCodes(_)
sortedCodes(codes) ==
  IF codes = {} THEN <<>>
  ELSE LET least == CHOOSE c \in codes : \A d \in codes : c.v <= d.v
       IN <<least>> \o sortedCodes(codes \ {least})

\* Array.prototype.sort: the array it is called on is sorted in place
sort(heap, array) ==
  write(heap, array.ref,
        Given(sortedCodes({array.value[i] : i \in DOMAIN array.value})))

\* serializeSuccessCodes: the numbers are filtered into an array, that is
\* filtered by uniqueCodes, and the result is sorted
serializeSuccessCodesHeap(heap) ==
  IF ~heap.successCodes.defined THEN heap
  ELSE LET successCodes == Ref("successCodes", heap.successCodes.entries)
           serializedCodes ==
             uniqueCodes(
               filter(successCodes,
                      SelectSeq(successCodes.value,
                                LAMBDA code : code.type = "number")))
       IN sort(heap, serializedCodes)

\* a cloneHeaders that returns the object it was given
cloneHeadersShared(headers) == headers

\* cloneHeaders: `{...headers}`, a new object
cloneHeaders(headers) == Ref(FRESH, headers.value)

\* applyHeaders: the names are assigned into a clone of prevHeaders
applyHeadersHeap(heap, prevHeaders, headers) ==
  LET nextHeaders == cloneHeaders(prevHeaders)
  IN [heap |-> write(heap, nextHeaders.ref,
                     applyHeaders(nextHeaders.value, headers)),
      nextHeaders |-> Ref(nextHeaders.ref,
                          applyHeaders(nextHeaders.value, headers))]

\* serializeHeaders: `applyHeaders({}, paramHeaders)`; the pairs are pushed
\* into a new array, which is sorted
serializeHeadersHeap(heap) ==
  IF ~heap.headers.defined THEN heap
  ELSE applyHeadersHeap(heap, Ref(FRESH, EmptyMap),
                        heap.headers.entries).heap

\* getParamsId
getParamsIdHeap(heap) == serializeSuccessCodesHeap(serializeHeadersHeap(heap))

\* getRequestHeadersAndBody: `headers` is the clone of the default headers
\* or what applyHeaders returned, and `headers['content-type']` is assigned
\* into it; JSON.stringify reads the body
requestHeadersHeap(heap, params) ==
  LET cloned == cloneHeaders(Ref(DEFAULT_HEADERS, heap.defaultHeaders))
  IN IF params.headers.defined
       THEN applyHeadersHeap(heap, cloned, params.headers.entries)
       ELSE [heap |-> heap, nextHeaders |-> cloned]

getRequestHeadersAndBodyHeap(heap, params) ==
  LET applied == requestHeadersHeap(heap, params)
  IN IF serializesJson(params)
       THEN write(applied.heap, applied.nextHeaders.ref,
                  set(applied.nextHeaders.value, CONTENT_TYPE,
                      APPLICATION_JSON))
       ELSE applied.heap

\* what getResponse of Transport is given: the headers and the body that
\* getRequestHeadersAndBody returns, the headers being that object
Sent(params) ==
  [headers |-> getRequestHeadersAndBody(params).headers,
   body |-> getRequestHeadersAndBody(params).body,
   object |-> requestHeadersHeap(heapOf(params), params).nextHeaders.ref]

\* Api.request: the key is computed, and the headers and the body are
\* prepared when a network path starts
requestHeap(params, startsPath) ==
  LET keyed == getParamsIdHeap(heapOf(params))
  IN IF startsPath THEN getRequestHeadersAndBodyHeap(keyed, params)
                   ELSE keyed

\* what a call gives out, with the objects of the descriptor that do not
\* hold after the call what they held before
Called(out, params, heap) ==
  [out EXCEPT !.mutated =
     {object \in CallerObjects : heap[object] # heapOf(params)[object]}]

\* the promise getResponseBody returns
getResponseBodyPromise(params, options) ==
  LET cachedRequest == get(inProgressRequestCache, getParamsId(params))
  IN IF joinsInFlight(cachedRequest, deduplicate(params, options))
       THEN cachedRequest.requestPromise
       ELSE Len(requests) + 1

\* a catch block that rethrows without `this.errorStream.next(error)`
noEmittedError(id, error) == <<>>

\* an error channel that delivers the failure of a network path once for
\* the call that started it and once more for every call that joined it
emittedErrorPerCaller(id, error) ==
  [i \in 1..(1 + Cardinality({held \in sharedPromises :
                                held.promise = id})) |->
     [request |-> id, error |-> error]]

\* `this.errorStream.next(error)`: what the error channel delivers for the
\* failure of network path id
emittedError(id, error) == <<[request |-> id, error |-> error]>>

\* the error channel after getResponseBody: fetchResponseBody catches what
\* getRequestHeadersAndBody throws before Transport is invoked
getResponseBodyErrors(params, options, serializeThrows) ==
  IF serializeThrows
    THEN emittedError(Len(requests) + 1, "SerializeHookError")
    ELSE <<>>

\* Api.request calls getResponseBody for a refresh in the background, and
\* drops its promise, when it serves a cache-and-fetch call from the cache
startedInBackground(params, options) ==
  /\ effectiveFetchPolicy(options) = "cache-and-fetch"
  /\ Truthy(get(responseBodyCache, getParamsId(params)))

\* getResponseBody, with the synchronous part of createRequestPromise and of
\* fetchResponseBody (up to the await of Transport).  serializeThrows: the
\* serializeRequestJson hook or JSON.stringify throws.
getResponseBody(params, options, serializeThrows) ==
  LET paramsKey == getParamsId(params)
      cachedRequest == get(inProgressRequestCache, paramsKey)
      id == Len(requests) + 1
  IN IF joinsInFlight(cachedRequest, deduplicate(params, options))
       THEN /\ ~serializeThrows
            /\ UNCHANGED <<requests, inProgressRequestCache, microtasks>>
       ELSE /\ Len(requests) < MaxRequests
            /\ microtasks' = IF serializeThrows THEN Append(microtasks, id)
                                                ELSE microtasks
            /\ serializeThrows => serializesJson(params)
            /\ requests' = Append(requests,
                 [params |-> params,
                  fetchPolicy |-> IF serializeThrows THEN Undefined
                                  ELSE effectiveFetchPolicy(options),
                  background |-> ~serializeThrows
                                 /\ startedInBackground(params, options),
                  sent |-> IF serializeThrows THEN NotSent
                           ELSE Sent(params),
                  fetch |-> IF serializeThrows
                              THEN Rejected("SerializeHookError", 0, Null)
                              ELSE Pending,
                  settled |-> FALSE])
            /\ inProgressRequestCache' =
                 set(inProgressRequestCache, paramsKey,
                     [type |-> "request", id |-> id,
                      requestPromise |-> id])

\* setDefaultHeader: `applyHeaders(this.defaultHeaders, {[key]: value})`
\* the assignments go into the object applyHeaders made, which then is
\* `this.defaultHeaders`; a header map handed to Transport shows them when
\* it is the object they went into
setDefaultHeader(key, value) ==
  LET applied == applyHeadersHeap([defaultHeaders |-> defaultHeaders],
                                  Ref(DEFAULT_HEADERS, defaultHeaders),
                                  << <<key, value>> >>)
  IN /\ defaultHeaders' = applied.nextHeaders.value
     /\ requests' =
          [id \in DOMAIN requests |->
             IF requests[id].sent.object = DEFAULT_HEADERS
               THEN [requests[id] EXCEPT
                       !.sent.headers = applied.heap.defaultHeaders]
               ELSE requests[id]]
     /\ output' = Output(NothingReturned, NoPath, <<>>, <<>>)
     /\ UNCHANGED <<constructed, emitter, hookState, sharedPromises, responseBodyCache,
                    inProgressRequestCache, microtasks>>

\* `return this.inProgressRequestCache.has(getParamsId(params))`
requestInProgress(params) == has(inProgressRequestCache, getParamsId(params))

\* a finally block without the identity check
ownsAnyEntry(cachedRequest, id) == Truthy(cachedRequest)

\* `if (cachedRequest && cachedRequest.id === id)`
ownsEntry(cachedRequest, id) == Truthy(cachedRequest) /\ cachedRequest.id = id

\* a createRequestPromise without the finally block
neverDeregistered(paramsId, id) == inProgressRequestCache

\* the in-flight registry after the finally block of createRequestPromise
deregistered(paramsId, id) ==
  IF ownsEntry(get(inProgressRequestCache, paramsId), id)
    THEN del(inProgressRequestCache, paramsId)
    ELSE inProgressRequestCache

\* createRequestPromise resumes after `await this.fetchResponseBody(...)`:
\* the finally block runs and the promise settles as fetchResponseBody did
createRequestPromise(id) ==
  /\ id \in RequestIds
  /\ requests[id].fetch.state \in {"fulfilled", "rejected"}
  /\ ~requests[id].settled
  /\ microtasks # <<>>
  /\ Head(microtasks) = id
  /\ microtasks' = Tail(microtasks)
  /\ inProgressRequestCache' =
       deregistered(getParamsId(requests[id].params), id)
  /\ requests' = [requests EXCEPT ![id] = Settled(requests[id])]
  /\ output' = Output(NothingReturned, Path(id), <<>>, <<>>)
  /\ sharedPromises' = {held \in sharedPromises : held.promise # id}
  /\ UNCHANGED <<constructed, defaultHeaders, emitter, hookState, responseBodyCache>>

\* a parseResponseJson hook given to the constructor that changes the
\* body, and changes it again when it is applied again
transformed(body) == [body EXCEPT !.v = @ + 1000]

\* `this.parseResponseJson(response.body as object, params)`: the default
\* hook is `identity`
parseResponseJson(body, params) ==
  IF parseResponseJsonHook = "identity" THEN body ELSE transformed(body)

\* a catch block that parses the body of an ApiError before rethrowing:
\* `error.responseBody = this.parseResponseJson(error.responseBody)`
rethrownReparsed(outcome, params) ==
  IF outcome.error = "ApiError" /\ bodyTypeOf(outcome.body) = "json"
    THEN [outcome EXCEPT !.body = parseResponseJson(@, params)]
    ELSE outcome

\* the catch block of fetchResponseBody: `throw error`, the error as it
\* was thrown
rethrown(outcome, params) == outcome

\* a maybeThrowApiError that looks at `response.ok` only
maybeThrowApiErrorIgnoringCodes(params, status) == status < 200 \/ status > 299

\* maybeThrowApiError: TRUE when it throws
maybeThrowApiError(params, status) ==
  IF params.successCodes.defined
    THEN \A i \in DOMAIN params.successCodes.entries :
           Num(status) # params.successCodes.entries[i]
    ELSE status < 200 \/ status > 299

\* a fetchResponseBody without the `fetchPolicy !== 'no-cache'` test
writesThroughAnyPolicy(fetchPolicy, threw) == ~threw

\* a fetchResponseBody that hands the body to the cache before
\* maybeThrowApiError, whatever happened
writesThroughOnError(fetchPolicy, threw) == fetchPolicy # "no-cache"

\* the response is handed to the cache when nothing threw before line 201
\* and `fetchPolicy !== 'no-cache'`
writesThrough(fetchPolicy, threw) == ~threw /\ fetchPolicy # "no-cache"

(***************************************************************************)
(* Api (src/unnamed/part_006)                                              *)
(***************************************************************************)
\* a cache in which the first body written for a key stays
writtenCacheKeepingFirst(params, responseBody) ==
  IF has(responseBodyCache, getParamsId(params)) THEN responseBodyCache
  ELSE set(responseBodyCache, getParamsId(params), responseBody)

\* Api.writeCachedResponse: the cache after it, and the event it emits
writtenCache(params, responseBody) ==
  set(responseBodyCache, getParamsId(params), responseBody)

\* a write that emits no event
noEmittedCacheUpdate(params, responseBody) == <<>>

\* `this.emitter.emit(genCacheUpdateEvent(params), responseBody)`
emittedCacheUpdate(params, responseBody) ==
  <<[event |-> genCacheUpdateEvent(params), body |-> responseBody]>>

\* `return this.responseBodyCache.get(getParamsId(params))`
readCachedResponse(params) == get(responseBodyCache, getParamsId(params))

\* a fetchResponseBody that takes the fetch policy of a call that joined
\* the request, when there is one
fetchPolicyOfJoined(id) ==
  LET joined == {held \in sharedPromises : held.promise = id}
  IN IF joined = {} THEN requests[id].fetchPolicy
     ELSE (CHOOSE held \in joined :
             \A other \in joined :
               (other.fetchPolicy = "no-cache")
                 => (held.fetchPolicy = "no-cache")).fetchPolicy

\* `const {fetchPolicy = this.defaultFetchPolicy} = options`: the options
\* are those of the call that started network path id
fetchPolicyOf(id) == requests[id].fetchPolicy

\* what fetchResponseBody ends with, given the answer of Transport
fetchOutcome(params, response, parseThrows) ==
  LET responseBody ==
        IF bodyTypeOf(response.body) = "json"
          THEN parseResponseJson(response.body, params)
          ELSE response.body
  IN IF parseThrows
       THEN rethrown(Rejected("ParseHookError", 0, Null), params)
     ELSE IF maybeThrowApiError(params, response.status)
       THEN rethrown(Rejected("ApiError", response.status, responseBody),
                     params)
       ELSE Fulfilled(responseBody)

\* fetchResponseBody resumes after `await this.requestFetcher.getResponse`
\* with a response.  parseThrows: the parseResponseJson hook throws.
TransportResolves(id, response, parseThrows) ==
  /\ id \in RequestIds
  /\ TransportPending(id)
  /\ parseThrows => bodyTypeOf(response.body) = "json"
  /\ LET params == requests[id].params
         outcome == fetchOutcome(params, response, parseThrows)
         threw == outcome.state = "rejected"
         writes_ == writesThrough(fetchPolicyOf(id), threw)
     IN /\ requests' = [requests EXCEPT ![id].fetch = outcome,
                                        ![id].fetchPolicy = Undefined,
                                        ![id].background = FALSE,
                                        ![id].sent = NotSent]
        /\ microtasks' = Append(microtasks, id)
        /\ responseBodyCache' =
             IF writes_ THEN writtenCache(params, outcome.body)
                        ELSE responseBodyCache
        /\ output' =
             Called(Output(NothingReturned, Path(id),
                           IF writes_
                             THEN emittedCacheUpdate(params, outcome.body)
                             ELSE <<>>,
                           IF threw THEN emittedError(id, outcome.error)
                                    ELSE <<>>),
                    params,
                    IF writes_ THEN getParamsIdHeap(heapOf(params))
                               ELSE heapOf(params))
  /\ UNCHANGED <<constructed, defaultHeaders, emitter, hookState, sharedPromises, inProgressRequestCache>>

\* fetchResponseBody resumes after the await with an exception of Transport
TransportRejects(id) ==
  /\ id \in RequestIds
  /\ TransportPending(id)
  /\ requests' =
       [requests EXCEPT ![id].fetch = Rejected("TransportError", 0, Null),
                        ![id].fetchPolicy = Undefined,
                        ![id].background = FALSE,
                        ![id].sent = NotSent]
  /\ microtasks' = Append(microtasks, id)
  /\ output' = Output(NothingReturned, Path(id), <<>>,
                      emittedError(id, "TransportError"))
  /\ UNCHANGED <<constructed, defaultHeaders, emitter, hookState, sharedPromises, responseBodyCache,
                 inProgressRequestCache>>

\* an Api.request that falls through to the network on a cache-only miss
requestRouteFetchingOnMiss(fetchPolicy, cachedResponse) ==
  IF fetchPolicy \notin READ_CACHE_POLICIES THEN "network"
  ELSE IF Truthy(cachedResponse)
    THEN IF fetchPolicy = "cache-and-fetch" THEN "cached-and-fetch"
                                            ELSE "cached"
  ELSE "network"

\* an Api.request that hands the promise of the refresh to the caller of a
\* cache-and-fetch call served from the cache
requestRouteAwaitingRefresh(fetchPolicy, cachedResponse) ==
  IF fetchPolicy \notin READ_CACHE_POLICIES THEN "network"
  ELSE IF Truthy(cachedResponse)
    THEN IF fetchPolicy = "cache-and-fetch" THEN "network" ELSE "cached"
  ELSE IF fetchPolicy = "cache-only" THEN "cache-miss"
  ELSE "network"

\* an Api.request that reads the cache under every policy
requestRouteReadingAlways(fetchPolicy, cachedResponse) ==
  IF Truthy(cachedResponse)
    THEN IF fetchPolicy = "cache-and-fetch" THEN "cached-and-fetch"
                                            ELSE "cached"
  ELSE IF fetchPolicy = "cache-only" THEN "cache-miss"
  ELSE "network"

\* an Api.request that rejects on a miss under every policy that reads
requestRouteRejectingOnMiss(fetchPolicy, cachedResponse) ==
  IF fetchPolicy \notin READ_CACHE_POLICIES THEN "network"
  ELSE IF Truthy(cachedResponse)
    THEN IF fetchPolicy = "cache-and-fetch" THEN "cached-and-fetch"
                                            ELSE "cached"
  ELSE "cache-miss"

\* an Api.request that refreshes in the background on every hit
requestRouteRefreshingOnHit(fetchPolicy, cachedResponse) ==
  IF fetchPolicy \notin READ_CACHE_POLICIES THEN "network"
  ELSE IF Truthy(cachedResponse) THEN "cached-and-fetch"
  ELSE IF fetchPolicy = "cache-only" THEN "cache-miss"
  ELSE "network"

\* the branch Api.request takes
requestRoute(fetchPolicy, cachedResponse) ==
  IF fetchPolicy \notin READ_CACHE_POLICIES THEN "network"
  ELSE IF Truthy(cachedResponse)
    THEN IF fetchPolicy = "cache-and-fetch" THEN "cached-and-fetch"
                                            ELSE "cached"
  ELSE IF fetchPolicy = "cache-only" THEN "cache-miss"
  ELSE "network"

\* Api.request
requestCall(params, options, serializeThrows) ==
  LET fetchPolicy == effectiveFetchPolicy(options)
      cachedResponse == get(responseBodyCache, getParamsId(params))
      route == requestRoute(fetchPolicy, cachedResponse)
      promise == getResponseBodyPromise(params, options)
      errors == getResponseBodyErrors(params, options, serializeThrows)
  IN /\ CASE route = "network" ->
               /\ getResponseBody(params, options, serializeThrows)
               /\ output' =
                    Called(Output(ReturnedPromise(promise), NoPath, <<>>,
                                  errors),
                           params,
                           requestHeap(params,
                                       promise = Len(requests) + 1))
          [] route = "cached-and-fetch" ->
               /\ getResponseBody(params, options, serializeThrows)
               /\ output' =
                    Called(Output(ReturnedCached(cachedResponse), NoPath,
                                  <<>>, errors),
                           params,
                           requestHeap(params,
                                       promise = Len(requests) + 1))
          [] route = "cached" ->
               /\ ~serializeThrows
               /\ output' =
                    Called(Output(ReturnedCached(cachedResponse), NoPath,
                                  <<>>, <<>>),
                           params, requestHeap(params, FALSE))
               /\ UNCHANGED <<requests, inProgressRequestCache, microtasks>>
          [] route = "cache-miss" ->
               /\ ~serializeThrows
               /\ output' =
                    Called(Output(ReturnedCacheMiss, NoPath, <<>>, <<>>),
                           params, requestHeap(params, FALSE))
               /\ UNCHANGED <<requests, inProgressRequestCache, microtasks>>
     /\ defaultHeaders' =
          requestHeap(params,
                      /\ route \in {"network", "cached-and-fetch"}
                      /\ promise = Len(requests) + 1).defaultHeaders
     /\ UNCHANGED <<constructed, emitter, hookState, responseBodyCache>>

\* Api.request called by an application that does not keep the promise
request(params, options, serializeThrows) ==
  /\ requestCall(params, options, serializeThrows)
  /\ UNCHANGED sharedPromises

\* Api.request called by an application that keeps the promise when the
\* call joined a request in flight
requestShared(params, options) ==
  LET promise == getResponseBodyPromise(params, options)
      joined == /\ requestRoute(effectiveFetchPolicy(options),
                                readCachedResponse(params)) = "network"
                /\ promise # Len(requests) + 1
  IN /\ requestCall(params, options, FALSE)
     /\ sharedPromises' =
          IF joined
            THEN sharedPromises
                   \cup {[promise |-> promise,
                          fetchPolicy |-> effectiveFetchPolicy(options)]}
            ELSE sharedPromises

\* Api.writeCachedResponse called by the application
writeCachedResponse(params, responseBody) ==
  /\ responseBodyCache' = writtenCache(params, responseBody)
  /\ output' = Called(Output(NothingReturned, NoPath,
                             emittedCacheUpdate(params, responseBody), <<>>),
                      params, getParamsIdHeap(heapOf(params)))
  /\ UNCHANGED <<constructed, defaultHeaders, emitter, hookState, sharedPromises, inProgressRequestCache, requests,
                 microtasks>>

\* what Api.readCachedResponse returns
ReturnedValue(body) == [kind |-> "value", promise |-> 0, value |-> body]

\* Api.readCachedResponse called by the application
read(params) ==
  /\ output' = Called(Output(ReturnedValue(readCachedResponse(params)),
                             NoPath, <<>>, <<>>),
                      params, getParamsIdHeap(heapOf(params)))
  /\ UNCHANGED <<constructed, defaultHeaders, emitter, hookState, sharedPromises,
                 responseBodyCache, inProgressRequestCache, requests,
                 microtasks>>

\* EventEmitter.on: the listener is added behind the listeners of the event
on(event, listener) ==
  [e \in DOMAIN emitter \cup {event} |->
     IF e = event THEN Append(listeners(event), listener) ELSE emitter[e]]

\* an `off` that takes nothing away
offNothing(event, listener) == emitter

\* EventEmitter.off: every listener of the event that is this function is
\* taken away, and the event with it when none is left
off(event, listener) ==
  LET kept == SelectSeq(listeners(event), LAMBDA fn : fn # listener)
  IN [e \in IF kept = <<>> THEN DOMAIN emitter \ {event}
                           ELSE DOMAIN emitter |->
        IF e = event THEN kept ELSE emitter[e]]

\* createSubscription, for Api.onCacheUpdate and Api.onError
createSubscription(event, listener) ==
  /\ emitter' = on(event, listener)
  /\ output' = Output(NothingReturned, NoPath, <<>>, <<>>)
  /\ UNCHANGED <<constructed, defaultHeaders, hookState, sharedPromises, responseBodyCache,
                 inProgressRequestCache, requests, microtasks>>

\* Api.onCacheUpdate
onCacheUpdate(params, listener) ==
  createSubscription(genCacheUpdateEvent(params), listener)

\* Api.onError
onError(listener) == createSubscription(ERROR_EVENT, listener)

\* the function createSubscription returned for the event and the listener
\* is called
unsubscribe(event, listener) ==
  /\ emitter' = off(event, listener)
  /\ output' = Output(NothingReturned, NoPath, <<>>, <<>>)
  /\ UNCHANGED <<constructed, defaultHeaders, hookState, sharedPromises, responseBodyCache,
                 inProgressRequestCache, requests, microtasks>>

(***************************************************************************)
(* Specifications                                                          *)
(***************************************************************************)
\* The in-flight registry: a GET and a POST, every deduplicate option, the
\* default fetch policy.
InFlightDescriptors ==
  { Descriptor(m, "/a", Undefined) : m \in {"GET", "POST"} }

InFlightOptions ==
  {o \in ApiRequestOptions : o.fetchPolicy = Undefined}

InFlightResponses(id) ==
  {r \in RequestFetcherResponses(id) : r.body = Obj(id)}

NextInFlight ==
  \/ \E params \in InFlightDescriptors, options \in InFlightOptions :
       request(params, options, FALSE)
  \/ \E id \in RequestIds :
       \E response \in InFlightResponses(id) :
         TransportResolves(id, response, FALSE)
  \/ \E id \in RequestIds : TransportRejects(id)
  \/ \E id \in RequestIds : createRequestPromise(id)

SpecInFlight == Init /\ [][NextInFlight]_vars

\* The default of deduplicate: every method and the omitted method, every
\* deduplicate option, the default fetch policy, Transport answering 200.
MethodResponses(id) ==
  {r \in InFlightResponses(id) : r.status = 200}

NextMethods ==
  \/ \E params \in MethodDescriptors, options \in InFlightOptions :
       request(params, options, FALSE)
  \/ \E id \in RequestIds :
       \E response \in MethodResponses(id) :
         TransportResolves(id, response, FALSE)
  \/ \E id \in RequestIds : createRequestPromise(id)

SpecMethods == Init /\ [][NextMethods]_vars

\* The fetch policies and the response cache: a GET under every fetch
\* policy, deduplicated or not.
CacheOptions ==
  {o \in ApiRequestOptions : o.deduplicate # Undefined}

CacheResponses(id) ==
  {r \in RequestFetcherResponses(id) : r.status = 200 \/ r.body = Obj(id)}

NextCache ==
  \/ \E params \in CacheDescriptors, options \in CacheOptions :
       request(params, options, FALSE)
  \/ \E id \in RequestIds :
       \E response \in CacheResponses(id), parseThrows \in BOOLEAN :
         TransportResolves(id, response, parseThrows)
  \/ \E id \in RequestIds : TransportRejects(id)
  \/ \E id \in RequestIds : createRequestPromise(id)
  \/ \E params \in CacheDescriptors, responseBody \in ManualBodies :
       writeCachedResponse(params, responseBody)

SpecCache == Init /\ [][NextCache]_vars

\* The body hooks: a POST with an object body under every fetch policy,
\* deduplicated, where the serialize hook and the parse hook can throw.
HookOptions ==
  {o \in ApiRequestOptions : o.deduplicate = "true"}

NextHooks ==
  \/ \E params \in HookDescriptors, options \in HookOptions,
        serializeThrows \in BOOLEAN :
       request(params, options, serializeThrows)
  \/ \E id \in RequestIds :
       \E response \in CacheResponses(id), parseThrows \in BOOLEAN :
         TransportResolves(id, response, parseThrows)
  \/ \E id \in RequestIds : TransportRejects(id)
  \/ \E id \in RequestIds : createRequestPromise(id)
  \/ \E params \in HookDescriptors, responseBody \in ManualBodies :
       writeCachedResponse(params, responseBody)

SpecHooks == Init /\ [][NextHooks]_vars

\* The classification of the answers of Transport: the descriptors with and
\* without successCodes, statuses on both sides of 200 and 299.
ClassifyOptions ==
  {o \in ApiRequestOptions :
     o.fetchPolicy = Undefined /\ o.deduplicate = Undefined}

ClassifyResponses(id) ==
  [status : {199, 200, 299, 300, 404}, body : {Obj(id)}]

NextClassify ==
  \/ \E params \in ClassifyDescriptors, options \in ClassifyOptions :
       request(params, options, FALSE)
  \/ \E id \in RequestIds :
       \E response \in ClassifyResponses(id) :
         TransportResolves(id, response, FALSE)
  \/ \E id \in RequestIds : createRequestPromise(id)

SpecClassify == Init /\ [][NextClassify]_vars

(***************************************************************************)
(* Properties of the in-flight registry (SpecInFlight, SpecMethods)        *)
(***************************************************************************)
\* the key of a network path
keyOf(id) == getParamsId(requests[id].params)

\* the network paths started for a key, and the latest of them (0: none)
PathsOf(key) == {id \in RequestIds : keyOf(id) = key}
LatestPath(key) ==
  LET paths == PathsOf(key)
  IN IF paths = {} THEN 0
     ELSE CHOOSE id \in paths : \A other \in paths : other <= id

\* the effective method of a descriptor
effectiveMethod(params) == getParamsId(params)[1]

\* C1: while the Transport call of the latest network path of a key is
\* pending, every deduplicated call of request() for the key starts no
\* network path (Transport is not invoked again) and returns that path's
\* promise, the very same one, hence the same settled outcome.
DeduplicatedCallsShareOnePromise ==
  [][\A params \in InFlightDescriptors :
       LET first == LatestPath(getParamsId(params))
       IN (first # 0 /\ TransportPending(first))
          => \A options \in InFlightOptions :
               (deduplicate(params, options) /\ request(params, options, FALSE))
               => /\ output'.returned = ReturnedPromise(first)
                  /\ requests' = requests]_vars

\* a call has just been handed the promise of an earlier network path whose
\* Transport call is pending
DeduplicatedCallJoined ==
  /\ output.returned.kind = "network"
  /\ output.returned.promise < Len(requests)
  /\ TransportPending(output.returned.promise)

\* C2 (as stated): without a deduplicate option, a call made while a request
\* for its key is in flight starts no network path exactly when the
\* effective method of the descriptor is GET.
DefaultDeduplicatesExactlyEffectiveGet ==
  [][\A params \in MethodDescriptors, options \in InFlightOptions :
       (/\ options.deduplicate = Undefined
        /\ requestInProgress(params)
        /\ request(params, options, FALSE))
       => ((requests' = requests) <=> (effectiveMethod(params) = "GET"))]_vars

\* C3: deduplicate=false always starts a network path of its own, whatever
\* the method and whatever is in flight; deduplicate=true with a request of
\* the key in flight starts none and returns the promise of that request,
\* whatever the method.
ExplicitDeduplicateOverridesDefault ==
  [][\A params \in MethodDescriptors, options \in InFlightOptions :
       /\ (options.deduplicate = "false" /\ request(params, options, FALSE))
            => /\ Len(requests') = Len(requests) + 1
               /\ requests'[Len(requests')].fetch.state = "pending"
               /\ output'.returned = ReturnedPromise(Len(requests'))
       /\ (/\ options.deduplicate = "true"
           /\ requestInProgress(params)
           /\ request(params, options, FALSE))
            => /\ requests' = requests
               /\ output'.returned =
                    ReturnedPromise(LatestPath(getParamsId(params)))
               /\ Unsettled(LatestPath(getParamsId(params)))]_vars

\* a call of a method other than GET has just joined the pending request of
\* its key, while another network path was started next to it
NonGetCallJoined ==
  /\ output.returned.kind = "network"
  /\ output.returned.promise < Len(requests)
  /\ TransportPending(output.returned.promise)
  /\ requests[output.returned.promise].params.method
       \in {"POST", "PUT", "PATCH", "DELETE"}

\* C4: as long as the latest network path started for a key has not
\* settled, the in-flight entry of the key is its own (so an earlier path
\* of the key that settles leaves it there and requestInProgress stays
\* true); and an entry is removed only in the step in which the network
\* path whose identity it holds settles.
EntryRemovedOnlyByOwner ==
  /\ [](\A key \in Keys :
          (LatestPath(key) # 0 /\ Unsettled(LatestPath(key)))
          => /\ has(inProgressRequestCache, key)
             /\ inProgressRequestCache[key].id = LatestPath(key))
  /\ [][\A key \in Keys :
          (has(inProgressRequestCache, key) /\ ~has(inProgressRequestCache', key))
          => /\ createRequestPromise(inProgressRequestCache[key].id)
             /\ keyOf(inProgressRequestCache[key].id) = key]_vars

\* A has just settled while B, started after it for the same key, is
\* pending: the entry of the key is B's
EarlierRequestSettledFirst ==
  /\ Len(requests) = 2
  /\ keyOf(1) = keyOf(2)
  /\ output.resumed.id = 1
  /\ requests[1].settled
  /\ TransportPending(2)
  /\ requestInProgress(requests[2].params)
  /\ inProgressRequestCache[keyOf(2)].id = 2

\* C5 (as stated): requestInProgress(d) is true whenever the Transport call
\* of some network path of d's key is pending.
InProgressWhileTransportPending ==
  \A id \in RequestIds :
    TransportPending(id) => requestInProgress(requests[id].params)

fetchResumes(id) ==
  /\ id \in RequestIds
  /\ TransportPending(id)
  /\ requests'[id].fetch.state # "pending"

\* C7 (as stated): when the network path of a request with a fetch policy
\* other than no-cache ends with a value, the response cache holds an entry
\* for the key, the cache-update event of the key has been emitted, and a
\* following cache-only call for the descriptor is served from the cache.
NetworkValueIsCached ==
  [][\A id \in RequestIds :
       (/\ fetchResumes(id)
        /\ requests[id].fetchPolicy # "no-cache"
        /\ requests'[id].fetch.state = "fulfilled")
       => /\ has(responseBodyCache', keyOf(id))
          /\ output'.cacheUpdates =
               <<[event |-> genCacheUpdateEvent(requests[id].params),
                  body |-> requests'[id].fetch.body]>>
          /\ requestRoute("cache-only", get(responseBodyCache', keyOf(id)))
               = "cached"]_vars

\* C8: the resumption of a network path that runs under no-cache leaves the
\* response cache as it was, the entry of its key included, and emits no
\* cache-update event, when Transport answered with a success as in any
\* other case.
NoCacheNeverWrites ==
  [][\A id \in RequestIds :
       (fetchResumes(id) /\ requests[id].fetchPolicy = "no-cache")
       => /\ responseBodyCache' = responseBodyCache
          /\ output'.cacheUpdates = <<>>]_vars

\* a network path under no-cache has just ended with a value while the
\* cache holds an entry for its key
NoCacheFetchSucceeded ==
  /\ output.resumed.id # 0
  /\ output.resumed.fetchPolicy = "no-cache"
  /\ requests[output.resumed.id].fetch.state = "fulfilled"
  /\ has(responseBodyCache, keyOf(output.resumed.id))

\* C9: a step in which a network path fails (ApiError, an exception of
\* Transport, an exception of the parse hook, or an exception of the
\* serialize hook when the path starts) leaves the response cache as it was
\* and emits no cache-update event, under every fetch policy.
FailedFetchNeverWrites ==
  [][(\/ \E id \in RequestIds :
           fetchResumes(id) /\ requests'[id].fetch.state = "rejected"
      \/ /\ Len(requests') = Len(requests) + 1
         /\ requests'[Len(requests')].fetch.state = "rejected")
     => /\ responseBodyCache' = responseBodyCache
        /\ output'.cacheUpdates = <<>>]_vars

\* a network path under a caching fetch policy has just failed with an
\* ApiError
CachingFetchFailed ==
  /\ output.resumed.id # 0
  /\ output.resumed.fetchPolicy \in ApiRequestFetchPolicy \ {"no-cache"}
  /\ requests[output.resumed.id].fetch.state = "rejected"
  /\ requests[output.resumed.id].fetch.error = "ApiError"
  /\ output.errors # <<>>

\* C10: a cache-only call for a key without a cache entry is rejected with
\* ApiCacheMissError and starts no network path: no Transport call, no
\* in-flight entry.
CacheOnlyMissRejects ==
  [][\A params \in CacheDescriptors :
       ~has(responseBodyCache, getParamsId(params))
       => \A options \in CacheOptions, serializeThrows \in BOOLEAN :
            (/\ effectiveFetchPolicy(options) = "cache-only"
             /\ request(params, options, serializeThrows))
            => /\ output'.returned = ReturnedCacheMiss
               /\ requests' = requests
               /\ inProgressRequestCache' = inProgressRequestCache]_vars

\* a call has just been rejected with ApiCacheMissError on an empty cache
CacheOnlyMissed ==
  /\ output.returned = ReturnedCacheMiss
  /\ responseBodyCache = EmptyMap
  /\ requests = <<>>

\* C11 (as stated): whenever the response cache has an entry for the key,
\* whatever body it holds, a cache-first or cache-only call returns that
\* body (no ApiCacheMissError) and starts no network path.
CachedEntryIsAlwaysServed ==
  [][\A params \in CacheDescriptors :
       has(responseBodyCache, getParamsId(params))
       => \A options \in CacheOptions, serializeThrows \in BOOLEAN :
            (/\ effectiveFetchPolicy(options) \in {"cache-first", "cache-only"}
             /\ request(params, options, serializeThrows))
            => /\ output'.returned =
                    ReturnedCached(responseBodyCache[getParamsId(params)])
               /\ requests' = requests]_vars

\* C12 (as stated): a cache-and-fetch call on a key with a cache entry
\* returns the body cached at call time and leaves a network path of the key
\* in flight; and when a network path started as such a background refresh
\* ends with a value, that value overwrites the cache entry, the cache-update
\* event of the key is emitted with it, and a cache-first call made next is
\* served that value.
CacheAndFetchServesThenRefreshes ==
  [][/\ \A params \in CacheDescriptors :
          has(responseBodyCache, getParamsId(params))
          => \A options \in CacheOptions, serializeThrows \in BOOLEAN :
               (/\ effectiveFetchPolicy(options) = "cache-and-fetch"
                /\ request(params, options, serializeThrows))
               => /\ output'.returned =
                       ReturnedCached(responseBodyCache[getParamsId(params)])
                  /\ has(inProgressRequestCache', getParamsId(params))
     /\ \A id \in RequestIds :
          (/\ fetchResumes(id)
           /\ requests[id].background
           /\ requests'[id].fetch.state = "fulfilled")
          => /\ has(responseBodyCache', keyOf(id))
             /\ responseBodyCache'[keyOf(id)] = requests'[id].fetch.body
             /\ output'.cacheUpdates =
                  emittedCacheUpdate(requests[id].params,
                                     requests'[id].fetch.body)
             /\ requestRoute("cache-first",
                             get(responseBodyCache', keyOf(id))) = "cached"
             /\ get(responseBodyCache', keyOf(id)) = requests'[id].fetch.body
    ]_vars

\* C13: a cache-and-fetch call served from the cache returns the cached
\* body as a resolved value that is tied to no network path; when the
\* background refresh it started fails (when it starts, or when Transport
\* has answered), nothing is returned or rejected to any caller in that
\* step, the error goes to the error channel, and the cache is unchanged.
BackgroundFailureKeepsCachedValue ==
  [][/\ \A params \in CacheDescriptors :
          Truthy(get(responseBodyCache, getParamsId(params)))
          => \A options \in CacheOptions, serializeThrows \in BOOLEAN :
               (/\ effectiveFetchPolicy(options) = "cache-and-fetch"
                /\ request(params, options, serializeThrows))
               => /\ output'.returned =
                       ReturnedCached(responseBodyCache[getParamsId(params)])
                  /\ output'.returned.promise = 0
                  /\ responseBodyCache' = responseBodyCache
                  /\ serializeThrows
                       => output'.errors =
                            <<[request |-> Len(requests'),
                               error |-> "SerializeHookError"]>>
     /\ \A id \in RequestIds :
          (/\ fetchResumes(id)
           /\ requests[id].background
           /\ requests'[id].fetch.state = "rejected")
          => /\ output'.returned = NothingReturned
             /\ output'.errors =
                  <<[request |-> id, error |-> requests'[id].fetch.error]>>
             /\ responseBodyCache' = responseBodyCache
    ]_vars

\* a background refresh has just failed while the cache holds the value
\* that was served
BackgroundRefreshFailed ==
  /\ output.resumed.background
  /\ requests[output.resumed.id].fetch.state = "rejected"
  /\ output.errors # <<>>
  /\ Truthy(get(responseBodyCache, keyOf(output.resumed.id)))

StatusClassification ==
  [][\A id \in RequestIds :
       \A response \in ClassifyResponses(id) :
         TransportResolves(id, response, FALSE)
         => LET codes == requests[id].params.successCodes
                success ==
                  IF codes # Absent
                    THEN \E i \in 1..Len(codes.entries) :
                           codes.entries[i] = Num(response.status)
                    ELSE 200 <= response.status /\ response.status <= 299
            IN /\ success
                    => requests'[id].fetch = Fulfilled(response.body)
               /\ ~success
                    => requests'[id].fetch =
                         Rejected("ApiError", response.status, response.body)
    ]_vars

\* a 200 that is not listed has failed with an ApiError carrying it
UnlistedOkStatusFailed ==
  \E id \in RequestIds :
    /\ requests[id].params.successCodes = Given(<<Num(201), Num(404)>>)
    /\ requests[id].fetch.state = "rejected"
    /\ requests[id].fetch.error = "ApiError"
    /\ requests[id].fetch.status = 200

(***************************************************************************)
(* Order of the cache writes (SpecCache)                                   *)
(***************************************************************************)
\* C16: cache writes are last-write-wins by completion order.  Whenever the
\* network path of a request with a policy other than no-cache completes
\* with a body, whatever other paths of the key are in flight or have
\* completed before, the cache entry of the key becomes that body, exactly
\* one cache-update event carrying it is emitted, and the path takes its
\* place behind the paths that completed before it in the order in which
\* the promises settle; settling a promise writes and notifies nothing.
LastCompletionWins ==
  [][/\ \A id \in RequestIds :
          (/\ fetchResumes(id)
           /\ requests[id].fetchPolicy # "no-cache"
           /\ requests'[id].fetch.state = "fulfilled")
          => /\ has(responseBodyCache', keyOf(id))
             /\ responseBodyCache'[keyOf(id)] = requests'[id].fetch.body
             /\ output'.cacheUpdates =
                  <<[event |-> genCacheUpdateEvent(requests[id].params),
                     body |-> requests'[id].fetch.body]>>
             /\ microtasks' = Append(microtasks, id)
     /\ \A id \in RequestIds :
          createRequestPromise(id)
          => /\ responseBodyCache' = responseBodyCache
             /\ output'.cacheUpdates = <<>>
             /\ id = Head(microtasks)
    ]_vars

\* two paths of one key were in flight together; the one that started
\* first has just completed, after the other one, and the cache holds its
\* body
FirstStartedCompletedLast ==
  /\ Len(requests) >= 2
  /\ keyOf(1) = keyOf(2)
  /\ output.resumed.id = 1
  /\ output.resumed.fetchPolicy \notin {Undefined, "no-cache"}
  /\ microtasks = <<2, 1>>
  /\ requests[1].fetch.state = "fulfilled"
  /\ requests[2].fetch.state = "fulfilled"
  /\ requests[1].fetch.body # requests[2].fetch.body
  /\ responseBodyCache[keyOf(1)] = requests[1].fetch.body
  /\ Len(output.cacheUpdates) = 1

(***************************************************************************)
(* The request keys (SpecKeys)                                             *)
(***************************************************************************)
MaxEntries == 2

\* header objects: none; one header under a lower-case and an upper-case
\* name; two headers in both insertion orders and in upper case; two names
\* that differ only by case, in both insertion orders; and one header whose
\* value reads like the end of one pair and the start of another
KeyHeaders ==
  { Absent,
    Given(<< <<<<"a">>, <<"1">>>> >>),
    Given(<< <<<<"A">>, <<"1">>>> >>),
    Given(<< <<<<"a">>, <<"1">>>>, <<<<"b">>, <<"2">>>> >>),
    Given(<< <<<<"b">>, <<"2">>>>, <<<<"a">>, <<"1">>>> >>),
    Given(<< <<<<"B">>, <<"2">>>>, <<<<"A">>, <<"1">>>> >>),
    Given(<< <<<<"A">>, <<"1">>>>, <<<<"a">>, <<"2">>>> >>),
    Given(<< <<<<"a">>, <<"2">>>>, <<<<"A">>, <<"1">>>> >>),
    Given(<< <<<<"a">>, <<"1", ";", "b", ":", "2">>>> >>) }

\* successCodes: none, the empty array, two codes, the same codes in another
\* order with a duplicate, and with an entry that is not a number
KeyCodes ==
  { Absent,
    Given(<<>>),
    Given(<<Num(200), Num(404)>>),
    Given(<<Num(404), Num(200), Num(200)>>),
    Given(<<Str(500), Num(404), Num(200)>>) }

\* a GET with every header object and successCodes array; the same with the
\* method left out; and descriptors that differ from the plain GET in one
\* of method, url, responseType, extraKey and body
KeyDescriptors ==
  { [Descriptor("GET", "/a", Undefined)
       EXCEPT !.headers = headers, !.successCodes = codes] :
      headers \in KeyHeaders, codes \in KeyCodes }
  \cup { [Descriptor(Undefined, "/a", Undefined) EXCEPT !.headers = headers] :
           headers \in KeyHeaders }
  \cup { Descriptor("POST", "/a", Undefined),
         Descriptor("POST", "/a", "object"),
         Descriptor("GET", "/b", Undefined),
         [Descriptor("GET", "/a", Undefined) EXCEPT !.responseType = "json"],
         [Descriptor("GET", "/a", Undefined) EXCEPT !.extraKey = "k"],
         [Descriptor("POST", "/a", "object") EXCEPT !.extraKey = "k"] }

\* reads of the cache that never reach the network
KeyOptions == {[fetchPolicy |-> "cache-only", deduplicate |-> Undefined]}

KeyBodies == {Obj(100)}

NextKeys ==
  \/ \E params \in KeyDescriptors, responseBody \in KeyBodies :
       /\ Cardinality(DOMAIN responseBodyCache) < MaxEntries
       /\ writeCachedResponse(params, responseBody)
  \/ \E params \in KeyDescriptors, options \in KeyOptions :
       request(params, options, FALSE)

SpecKeys == Init /\ [][NextKeys]_vars

\* the key of every descriptor of KeyDescriptors
KeyOf == [params \in KeyDescriptors |-> getParamsId(params)]

\* a text with its letters folded to one case, as code units
caseFolded(text) ==
  [i \in 1..Len(text) |->
     IF charCode(text[i]) >= 65 /\ charCode(text[i]) <= 90
       THEN charCode(text[i]) + 32
       ELSE charCode(text[i])]

\* the name/value pairs of a header object, names folded to one case
headerSet(headers) ==
  { <<caseFolded(headers.entries[i][1]), headers.entries[i][2]>> :
      i \in DOMAIN headers.entries }

\* the header object holds two names that differ only by case
caseClash(headers) ==
  \E i, j \in DOMAIN headers.entries :
    /\ i # j
    /\ caseFolded(headers.entries[i][1]) = caseFolded(headers.entries[j][1])

\* the numbers of a successCodes array, as a set
numbersOf(successCodes) ==
  { successCodes.entries[i].v :
      i \in { j \in DOMAIN successCodes.entries :
                successCodes.entries[j].type = "number" } }

\* a and b differ at most in the letter case of header names, the insertion
\* order of headers, the order, the duplicates and the non-number entries
\* of successCodes, and in GET being given or left out
SameUpToPresentation(a, b) ==
  /\ (IF a.method = Undefined THEN "GET" ELSE a.method)
       = (IF b.method = Undefined THEN "GET" ELSE b.method)
  /\ a.url = b.url
  /\ a.responseType = b.responseType
  /\ a.extraKey = b.extraKey
  /\ a.body = b.body
  /\ a.headers.defined = b.headers.defined
  /\ headerSet(a.headers) = headerSet(b.headers)
  /\ a.successCodes.defined = b.successCodes.defined
  /\ numbersOf(a.successCodes) = numbersOf(b.successCodes)

PresentationsOf ==
  [a \in KeyDescriptors |->
     {b \in KeyDescriptors : SameUpToPresentation(a, b)}]

EquivalentForCaching(a, b) ==
  /\ (IF a.method = Undefined THEN "GET" ELSE a.method)
       = (IF b.method = Undefined THEN "GET" ELSE b.method)
  /\ a.url = b.url
  /\ a.responseType = b.responseType
  /\ a.extraKey = b.extraKey
  /\ headerSet(a.headers) = headerSet(b.headers)
  /\ a.successCodes.defined = b.successCodes.defined
  /\ numbersOf(a.successCodes) = numbersOf(b.successCodes)

DistinctFrom ==
  [a \in KeyDescriptors |->
     {b \in KeyDescriptors : ~EquivalentForCaching(a, b)}]

\* C19 (as stated): descriptors that are not equivalent for caching get
\* different keys, so a value written for one of them into an empty cache
\* is not the cache entry of any descriptor that differs from it in the
\* effective method, the url, responseType, extraKey, the case-normalized
\* set of header pairs or the set of success codes.
DistinctDescriptorsDistinctKeys ==
  [][\A a \in KeyDescriptors, responseBody \in KeyBodies :
       (/\ output'.cacheUpdates # <<>>
        /\ output'.cacheUpdates[1].event[2] = KeyOf[a]
        /\ responseBodyCache = EmptyMap
        /\ writeCachedResponse(a, responseBody))
       => \A b \in DistinctFrom[a] :
            /\ ~has(responseBodyCache', KeyOf[b])
            /\ KeyOf[b] # KeyOf[a]
    ]_vars

(***************************************************************************)
(* The body and the extra key (SpecBodies)                                 *)
(***************************************************************************)
\* a POST without a body and with an object body, without and with an
\* extraKey
BodyDescriptors ==
  { [Descriptor("POST", "/a", body) EXCEPT !.extraKey = extraKey] :
      body \in {Undefined, "object"}, extraKey \in {Undefined, "k"} }

\* deduplicated calls that read the cache first or last
BodyOptions ==
  {o \in ApiRequestOptions :
     o.fetchPolicy \in {"cache-first", "fetch-first"} /\ o.deduplicate = "true"}

NextBodies ==
  \/ \E params \in BodyDescriptors, options \in BodyOptions :
       request(params, options, FALSE)
  \/ \E id \in RequestIds :
       \E response \in MethodResponses(id) :
         TransportResolves(id, response, FALSE)
  \/ \E id \in RequestIds : createRequestPromise(id)

SpecBodies == Init /\ [][NextBodies]_vars

\* a and b differ at most in body
SameButBody(a, b) == [a EXCEPT !.body = b.body] = b

\* C18: the body is not part of the key.  Two descriptors that differ only
\* in body have the same key, so at every moment they have the same cache
\* entry and the same in-flight slot; two descriptors whose extraKey
\* values differ have different keys.
BodyIsNotKeyed ==
  \A a, b \in BodyDescriptors :
    /\ SameButBody(a, b)
         => /\ getParamsId(a) = getParamsId(b)
            /\ readCachedResponse(a) = readCachedResponse(b)
            /\ requestInProgress(a) = requestInProgress(b)
    /\ a.extraKey # b.extraKey => getParamsId(a) # getParamsId(b)

\* the response of a POST with a body is the cache entry of the POST
\* without a body, and a POST with an extraKey is in flight, which occupies
\* the slot of the POST without a body and with that extraKey only
BodiesShareEntryAndSlot ==
  /\ Len(requests) >= 2
  /\ requests[1].params = Descriptor("POST", "/a", "object")
  /\ requests[1].settled
  /\ readCachedResponse(Descriptor("POST", "/a", Undefined)) = Obj(1)
  /\ requests[2].params =
       [Descriptor("POST", "/a", "object") EXCEPT !.extraKey = "k"]
  /\ TransportPending(2)
  /\ requestInProgress(
       [Descriptor("POST", "/a", Undefined) EXCEPT !.extraKey = "k"])
  /\ ~requestInProgress(Descriptor("POST", "/a", Undefined))

(***************************************************************************)
(* Writing and reading the cache by hand (SpecCache)                       *)
(***************************************************************************)
\* C20 (as stated): readCachedResponse(d) called right after
\* writeCachedResponse(d, v) returns v, for every body v: an object or a
\* text, the empty text included.
ReadReturnsWhatWasWritten ==
  [][\A params \in CacheDescriptors, responseBody \in ManualBodies :
       writeCachedResponse(params, responseBody)
       => readCachedResponse(params)' = responseBody
    ]_vars

(***************************************************************************)
(* The listeners of cache updates and of errors (SpecListeners)            *)
(***************************************************************************)
MaxListeners == 3
MaxListenerRequests == 1

\* two keys, two listener functions
ListenerDescriptors ==
  { Descriptor("GET", "/a", Undefined), Descriptor("GET", "/b", Undefined) }

Listeners == {1, 2}

ListenerEvents ==
  { genCacheUpdateEvent(params) : params \in ListenerDescriptors }
    \cup {ERROR_EVENT}

\* the listeners the emitter holds, all events together
RECURSIVE listenerCount(_)
listenerCount(events) ==
  IF events = {} THEN 0
  ELSE LET event == CHOOSE e \in events : TRUE
       IN Len(emitter[event]) + listenerCount(events \ {event})

\* a network path that writes its response back
ListenerOptions == {[fetchPolicy |-> "fetch-first", deduplicate |-> Undefined]}

NextListeners ==
  \/ \E params \in ListenerDescriptors, listener \in Listeners :
       /\ listenerCount(DOMAIN emitter) < MaxListeners
       /\ onCacheUpdate(params, listener)
  \/ \E listener \in Listeners :
       /\ listenerCount(DOMAIN emitter) < MaxListeners
       /\ onError(listener)
  \/ \E event \in ListenerEvents, listener \in Listeners :
       unsubscribe(event, listener)
  \/ \E params \in ListenerDescriptors, responseBody \in KeyBodies :
       writeCachedResponse(params, responseBody)
  \/ \E params \in CacheDescriptors, options \in ListenerOptions :
       /\ Len(requests) < MaxListenerRequests
       /\ request(params, options, FALSE)
  \/ \E id \in RequestIds :
       \E response \in MethodResponses(id) :
         TransportResolves(id, response, FALSE)
  \/ \E id \in RequestIds : TransportRejects(id)
  \/ \E id \in RequestIds : createRequestPromise(id)

SpecListeners == Init /\ [][NextListeners]_vars

\* the step writes the body for the key: it calls the listeners that were
\* subscribed to the key, each subscription once, in the order of the
\* subscriptions, with the body, calls no other listener, and leaves the
\* entries of the other keys as they were
writeNotifies(key, responseBody) ==
  LET event == <<"cacheUpdate", key>>
      subscribed == IF event \in DOMAIN emitter THEN emitter[event] ELSE <<>>
  IN /\ Len(output'.invoked) = Len(subscribed)
     /\ \A i \in 1..Len(subscribed) :
          /\ output'.invoked[i].listener = subscribed[i]
          /\ output'.invoked[i].event = event
          /\ output'.invoked[i].value = responseBody
     /\ DOMAIN responseBodyCache' = DOMAIN responseBodyCache \cup {key}
     /\ responseBodyCache'[key] = responseBody
     /\ \A other \in DOMAIN responseBodyCache \ {key} :
          responseBodyCache'[other] = responseBodyCache[other]

\* C21: every write to the cache for a key, by writeCachedResponse or by
\* the write-back of a successful network response, calls within the step
\* every listener subscribed to that key at that moment, once per
\* subscription, with the written body, in the order of subscription; no
\* listener of another key is called and no entry of another key changes.
WritesNotifyListenersInOrder ==
  [][/\ \A params \in ListenerDescriptors, responseBody \in KeyBodies :
          writeCachedResponse(params, responseBody)
          => writeNotifies(getParamsId(params), responseBody)
     /\ \A id \in RequestIds :
          (/\ fetchResumes(id)
           /\ requests[id].fetchPolicy # "no-cache"
           /\ requests'[id].fetch.state = "fulfilled")
          => writeNotifies(keyOf(id), requests'[id].fetch.body)
    ]_vars

\* the write-back of a network response for /a has called the two
\* listeners of /a, the one that subscribed first first, and not the
\* listener of /b, whose entry is as it was
TwoListenersNotifiedByWriteBack ==
  LET a == genCacheUpdateEvent(Descriptor("GET", "/a", Undefined))
      b == genCacheUpdateEvent(Descriptor("GET", "/b", Undefined))
  IN /\ a \in DOMAIN emitter /\ emitter[a] = <<2, 1>>
     /\ b \in DOMAIN emitter /\ emitter[b] = <<1>>
     /\ output.resumed.id = 1
     /\ output.invoked =
          <<[listener |-> 2, event |-> a, value |-> Obj(1)],
            [listener |-> 1, event |-> a, value |-> Obj(1)]>>
     /\ readCachedResponse(Descriptor("GET", "/b", Undefined)) = Obj(100)

\* the functions that listen to the event
listening(event) == { listeners(event)[i] : i \in 1..Len(listeners(event)) }

\* C22: calling the function returned by onCacheUpdate or onError takes
\* that listener off the event and leaves the other listeners, of this
\* event and of the others, in place and in order; a step calls only
\* listeners that are subscribed, and a listener comes (back) onto an event
\* only through onCacheUpdate or onError.  So an unsubscribed listener is
\* not called by later writes or errors, and the others still are.
UnsubscribedListenerStaysSilent ==
  [][/\ \A event \in ListenerEvents, listener \in Listeners :
          unsubscribe(event, listener)
          => /\ listener \notin listening(event)'
             /\ listeners(event)' =
                  SelectSeq(listeners(event), LAMBDA fn : fn # listener)
             /\ \A other \in ListenerEvents \ {event} :
                  listeners(other)' = listeners(other)
     /\ \A i \in 1..Len(output'.invoked) :
          output'.invoked[i].listener \in listening(output'.invoked[i].event)
     /\ \A event \in ListenerEvents, listener \in Listeners :
          (listener \in listening(event)' /\ listener \notin listening(event))
          => \/ event = ERROR_EVENT /\ onError(listener)
             \/ \E params \in ListenerDescriptors :
                  /\ event = genCacheUpdateEvent(params)
                  /\ onCacheUpdate(params, listener)
    ]_vars

\* a failed network path has called the one listener of errors that is
\* left, and a listener of /a has been taken off while another one stays
OtherListenersStillNotified ==
  LET a == genCacheUpdateEvent(Descriptor("GET", "/a", Undefined))
  IN /\ listeners(ERROR_EVENT) = <<1>>
     /\ listeners(a) = <<2>>
     /\ Len(output.invoked) = 1
     /\ output.invoked[1].listener = 1
     /\ output.invoked[1].event = ERROR_EVENT
     /\ output.invoked[1].value.error = "TransportError"

(***************************************************************************)
(* What Transport is given (SpecSent)                                      *)
(***************************************************************************)
MaxSentRequests == 1
MaxMutations == 3

\* every kind of body
BodyKinds ==
  {Undefined, "empty-string", "string", "object", "Blob", "BufferSource",
   "FormData", "URLSearchParams", "ReadableStream"}

\* a GET without headers, with a header under an upper-case name and with
\* another header; a POST with every kind of body, without headers; and a
\* POST with an object and with a Blob, with a Content-Type header of its own
SentDescriptors ==
  { [Descriptor("GET", "/a", Undefined) EXCEPT !.headers = headers] :
      headers \in { Absent,
                    Given(<< <<<<"A">>, <<"2">>>> >>),
                    Given(<< <<<<"b">>, <<"2">>>> >>) } }
  \cup
  { Descriptor("POST", "/a", body) : body \in BodyKinds }
  \cup
  { [Descriptor("POST", "/a", body) EXCEPT !.headers =
       Given(<< << <<"C", "o", "n", "t", "e", "n", "t", "-",
                     "T", "y", "p", "e">>,
                   <<"text/plain">> >> >>)] :
      body \in {"object", "Blob"} }

\* the names and the values given to setDefaultHeader
DefaultHeaderNames == { <<"A">>, <<"a">>, CONTENT_TYPE }
DefaultHeaderValues == { <<"1">> }

SentOptions == {[fetchPolicy |-> Undefined, deduplicate |-> Undefined]}

NextSent ==
  \/ \E key \in DefaultHeaderNames, value \in DefaultHeaderValues :
       setDefaultHeader(key, value)
  \/ \E params \in SentDescriptors, options \in SentOptions :
       /\ Len(requests) < MaxSentRequests
       /\ request(params, options, FALSE)
  \/ \E id \in RequestIds :
       \E response \in MethodResponses(id) :
         TransportResolves(id, response, FALSE)
  \/ \E id \in RequestIds : createRequestPromise(id)

SpecSent == Init /\ [][NextSent]_vars

\* the step is a call of request for the descriptor that starts a network
\* path, which hands Transport the headers and the body `sent`
requestSends(params, sent) ==
  /\ \E options \in SentOptions : request(params, options, FALSE)
  /\ Len(requests') = Len(requests) + 1
  /\ sent = requests'[Len(requests')].sent

\* two header names that differ at most by case
sameName(x, y) == caseFolded(x) = caseFolded(y)

\* the descriptor gives a header of that name
givesHeader(params, name) ==
  \E i \in DOMAIN params.headers.entries :
    sameName(params.headers.entries[i][1], name)

\* the headers are the default headers overlaid with the headers of the
\* descriptor, but for the names in `except`: every header of the
\* descriptor is there with its value, every default header that the
\* descriptor does not give is there with its value, and nothing else is
overlaid(headers, params, except) ==
  /\ \A i \in DOMAIN params.headers.entries :
       LET name == params.headers.entries[i][1]
       IN \E sent \in DOMAIN headers :
            /\ sameName(sent, name)
            /\ sent \in except \/ headers[sent] = params.headers.entries[i][2]
  /\ \A name \in DOMAIN defaultHeaders :
       ~givesHeader(params, name)
       => \E sent \in DOMAIN headers :
            /\ sameName(sent, name)
            /\ sent \in except \/ headers[sent] = defaultHeaders[name]
  /\ \A sent \in DOMAIN headers \ except :
       \/ givesHeader(params, sent)
       \/ \E name \in DOMAIN defaultHeaders : sameName(sent, name)

\* C23 (as stated): the header map handed to Transport is the default
\* headers set so far overlaid with the headers of the descriptor, names
\* compared without case: every default header is there unless the
\* descriptor gives a header of that name, whose value is then sent.
SentHeadersAreDefaultsOverlaid ==
  [][\A params \in SentDescriptors :
       \A sent \in {requests'[i].sent : i \in DOMAIN requests' \ DOMAIN requests} :
         requestSends(params, sent) => overlaid(sent.headers, params, {})
    ]_vars

\* C23 (amended): the same for every header but content-type when the body
\* is sent as JSON text; the content-type is then application/json,
\* whatever the default headers and the descriptor say.
SentHeadersAreDefaultsOverlaidButJson ==
  [][\A params \in SentDescriptors :
       \A sent \in {requests'[i].sent : i \in DOMAIN requests' \ DOMAIN requests} :
         requestSends(params, sent)
         => IF sent.body.stringified
              THEN /\ overlaid(sent.headers, params, {CONTENT_TYPE})
                   /\ CONTENT_TYPE \in DOMAIN sent.headers
                   /\ sent.headers[CONTENT_TYPE] = APPLICATION_JSON
              ELSE overlaid(sent.headers, params, {})
    ]_vars

\* Transport has been given the header a with the value of the request,
\* given under the name A, and not the default value, and the default
\* content-type
RequestHeaderSentOverDefault ==
  \E id \in RequestIds :
    /\ TransportPending(id)
    /\ requests[id].params.headers = Given(<< <<<<"A">>, <<"2">>>> >>)
    /\ DOMAIN defaultHeaders = {<<"a">>, CONTENT_TYPE}
    /\ defaultHeaders[<<"a">>] = <<"1">>
    /\ DOMAIN requests[id].sent.headers = {<<"a">>, CONTENT_TYPE}
    /\ requests[id].sent.headers[<<"a">>] = <<"2">>
    /\ requests[id].sent.headers[CONTENT_TYPE] = <<"1">>

\* C24 (as stated): an object body is sent as its JSON text with the
\* content-type application/json; a string body and a body of every
\* binary kind (Blob, BufferSource, FormData, URLSearchParams,
\* ReadableStream) is sent unchanged and no content-type is added for it.
BodySentByKind ==
  [][\A params \in SentDescriptors :
       \A sent \in {requests'[i].sent : i \in DOMAIN requests' \ DOMAIN requests} :
         (requestSends(params, sent) /\ params.method = "POST")
         => /\ params.body = "object"
                 => /\ sent.body = SentBody("object", TRUE)
                    /\ CONTENT_TYPE \in DOMAIN sent.headers
                    /\ sent.headers[CONTENT_TYPE] = APPLICATION_JSON
            /\ params.body \in {"string", "empty-string", "Blob",
                                "BufferSource", "FormData",
                                "URLSearchParams", "ReadableStream"}
                 => /\ sent.body = SentBody(params.body, FALSE)
                    /\ overlaid(sent.headers, params, {})
    ]_vars

(***************************************************************************)
(* Calls without a fetch policy (SpecCache)                                *)
(***************************************************************************)
\* a call of request without a fetchPolicy option
noPolicy(options) == options.fetchPolicy = Undefined

NonReadingPoliciesSkipCache ==
  [][/\ \A params \in CacheDescriptors, options \in CacheOptions :
          (/\ effectiveFetchPolicy(options) \in {"fetch-first", "no-cache"}
           /\ request(params, options, FALSE))
          => LET entry == get(inProgressRequestCache, getParamsId(params))
                 joins == Truthy(entry) /\ options.deduplicate = "true"
             IN /\ responseBodyCache' = responseBodyCache
                /\ joins => /\ output'.returned =
                                 ReturnedPromise(entry.requestPromise)
                            /\ requests' = requests
                /\ ~joins
                     => /\ output'.returned =
                             ReturnedPromise(Len(requests) + 1)
                        /\ Len(requests') = Len(requests) + 1
                        /\ requests'[Len(requests')].fetch.state = "pending"
                        /\ requests'[Len(requests')].fetchPolicy =
                             effectiveFetchPolicy(options)
     /\ \A id \in RequestIds :
          \A response \in CacheResponses(id) :
            (/\ requests[id].fetchPolicy \in {"fetch-first", "no-cache"}
             /\ TransportResolves(id, response, FALSE)
             /\ requests'[id].fetch.state = "fulfilled")
            => requests'[id].fetch.body = response.body
    ]_vars

\* the cache holds an entry for the key, and a fetch-first call has just
\* been handed the promise of a new network path, for which Transport has
\* been invoked
FetchFirstWentToNetwork ==
  \E id \in RequestIds :
    /\ output.returned = ReturnedPromise(id)
    /\ requests[id].fetchPolicy = "fetch-first"
    /\ TransportPending(id)
    /\ readCachedResponse(requests[id].params) = Obj(100)

InitParse == Constructed({"identity", "transform"})

\* Transport answers a JSON object or an empty text body, with a status
\* inside or outside 200..299
ParseResponses(id) == RequestFetcherResponses(id)

\* GETs with and without successCodes, where the parse hook can throw
NextParse ==
  \/ \E params \in ClassifyDescriptors, options \in ClassifyOptions :
       request(params, options, FALSE)
  \/ \E id \in RequestIds :
       \E response \in ParseResponses(id), parseThrows \in BOOLEAN :
         TransportResolves(id, response, parseThrows)
  \/ \E id \in RequestIds : createRequestPromise(id)

SpecParse == InitParse /\ [][NextParse]_vars

\* what the hook given to the constructor makes of a response body: a
\* JSON body goes through it, another body does not
hookApplied(body) ==
  IF bodyTypeOf(body) = "json" /\ parseResponseJsonHook = "transform"
    THEN transformed(body)
    ELSE body

\* C30: the parseResponseJson hook is applied to a JSON body before the
\* success-code check, whatever the status: when the hook throws, the
\* network path fails with what the hook threw, also for a failing status;
\* otherwise the body of the ApiError of a failing status, like the value
\* of a successful one, is the body transformed once.
ParseHookRunsOnceBeforeClassification ==
  [][\A id \in RequestIds :
       \A response \in ParseResponses(id), parseThrows \in BOOLEAN :
         TransportResolves(id, response, parseThrows)
         => requests'[id].fetch =
              IF parseThrows THEN Rejected("ParseHookError", 0, Null)
              ELSE IF maybeThrowApiError(requests[id].params,
                                         response.status)
                THEN Rejected("ApiError", response.status,
                              hookApplied(response.body))
                ELSE Fulfilled(hookApplied(response.body))
    ]_vars

\* with a transforming hook, Transport answered 404 with a JSON body and
\* the network path failed with an ApiError that carries the body
\* transformed once
ApiErrorCarriesTransformedBody ==
  /\ parseResponseJsonHook = "transform"
  /\ output.resumed.id = 1
  /\ requests[1].fetch = Rejected("ApiError", 404, transformed(Obj(1)))

(***************************************************************************)
(* useApiMutation (src/src/react/use-api-mutation/index.tsx)               *)
(***************************************************************************)
\* `setNumOccurringMutations((prev) => prev + 1)` and `(prev) => prev - 1`
registerMutation(prev) == prev + 1
deregisterMutation(prev) == prev - 1

\* `numOccurringMutations > 0`
mutating == numOccurringMutations > 0

\* an invocation of mutate that is suspended at `await mutator(...)`
Awaiting == [phase |-> "awaiting", how |-> "none", promise |-> "pending"]

\* an invocation of mutate that has ended: how the mutation went, and how
\* the promise of mutate settled
Ended(how, promise) == [phase |-> "ended", how |-> how, promise |-> promise]

\* the catch block of mutate: with an onError handler its value is
\* returned, without one the error is thrown again
caught(handlesError) ==
  Ended("failed", IF handlesError THEN "resolved" ELSE "rejected")

\* mutate(...mutationArgs), up to its first suspension.  mutationThrows:
\* `params.mutation(...mutationArgs)` throws; mutatorThrows: the mutator it
\* returns throws when called; handlesError: the hook was given an onError.
mutate(mutationThrows, mutatorThrows, handlesError) ==
  /\ Len(mutations) < MaxMutations
  /\ IF mutationThrows
       THEN \* thrown between registerMutation() and the try statement
            /\ numOccurringMutations' =
                 registerMutation(numOccurringMutations)
            /\ mutations' = Append(mutations, Ended("threw", "rejected"))
     ELSE IF mutatorThrows
       THEN \* thrown inside the try statement: catch, then finally
            /\ numOccurringMutations' =
                 deregisterMutation(registerMutation(numOccurringMutations))
            /\ mutations' = Append(mutations, caught(handlesError))
     ELSE /\ numOccurringMutations' =
               registerMutation(numOccurringMutations)
          /\ mutations' = Append(mutations, Awaiting)
  /\ UNCHANGED <<constructed, defaultHeaders, emitter, responseBodyCache,
                 inProgressRequestCache, requests, microtasks, output,
                 queryState, sharedPromises>>

\* mutate resumes after `await mutator(mutationApiHelpers)`: the finally
\* block runs, whether the mutator resolved or rejected
mutatorSettles(i, rejects, handlesError) ==
  /\ i \in DOMAIN mutations
  /\ mutations[i] = Awaiting
  /\ numOccurringMutations' = deregisterMutation(numOccurringMutations)
  /\ mutations' =
       [mutations EXCEPT ![i] = IF rejects THEN caught(handlesError)
                                ELSE Ended("succeeded", "resolved")]
  /\ UNCHANGED <<constructed, defaultHeaders, emitter, responseBodyCache,
                 inProgressRequestCache, requests, microtasks, output,
                 queryState, sharedPromises>>

NextMutation ==
  \/ \E mutationThrows, mutatorThrows, handlesError \in BOOLEAN :
       mutate(mutationThrows, mutatorThrows, handlesError)
  \/ \E i \in 1..MaxMutations, rejects, handlesError \in BOOLEAN :
       mutatorSettles(i, rejects, handlesError)

SpecMutation == Init /\ [][NextMutation]_vars

\* the invocations of mutate that are in progress
inProgress == {i \in DOMAIN mutations : mutations[i].phase = "awaiting"}

\* C27 (as stated): the mutating flag is true exactly while at least one
\* invocation of mutate is in progress, so it is false once every
\* invocation has ended, whether the mutation succeeded, rejected or
\* threw; and the in-progress count is never below zero.
MutatingExactlyWhileInProgress ==
  /\ mutating <=> inProgress # {}
  /\ numOccurringMutations >= 0

(***************************************************************************)
(* The descriptor of the caller (SpecFrame)                                *)
(***************************************************************************)
MaxFrameRequests == 1

\* the header object and the successCodes array of the descriptors: the
\* array is not sorted, and holds a number twice and a text
FrameHeaders == Given(<<<<<<"B">>, <<"1">>>>, <<<<"a">>, <<"2">>>>>>)
FrameSuccessCodes == Given(<<Num(404), Str(200), Num(200), Num(404)>>)

\* a GET with a successCodes array, and a POST with a header object, a
\* successCodes array and an object body
FrameDescriptors ==
  { [Descriptor("GET", "/a", Undefined)
       EXCEPT !.successCodes = FrameSuccessCodes],
    [Descriptor("POST", "/a", "object")
       EXCEPT !.headers = FrameHeaders,
              !.successCodes = FrameSuccessCodes] }

FrameOptions ==
  {o \in ApiRequestOptions : o.deduplicate = Undefined}

NextFrame ==
  \/ \E params \in FrameDescriptors, options \in FrameOptions :
       /\ Len(requests) < MaxFrameRequests
       /\ request(params, options, FALSE)
  \/ \E id \in RequestIds :
       \E response \in MethodResponses(id) :
         TransportResolves(id, response, FALSE)
  \/ \E id \in RequestIds : createRequestPromise(id)
  \/ \E params \in FrameDescriptors, responseBody \in KeyBodies :
       writeCachedResponse(params, responseBody)
  \/ \E params \in FrameDescriptors : read(params)
  \/ \E value \in DefaultHeaderValues :
       setDefaultHeader(<<"A">>, value)

SpecFrame == Init /\ [][NextFrame]_vars

\* C26: the core never mutates what the caller passed in: after every
\* call of request (and when its network path ends), writeCachedResponse,
\* readCachedResponse and setDefaultHeader, the header object, the
\* successCodes array and the body of the descriptor hold what they held
\* before the call.
CallerDescriptorUntouched == output.mutated = {}

\* a POST whose descriptor has a header object, an unsorted successCodes
\* array with a duplicate, and an object body has been sent as JSON with
\* the content-type header added, and its descriptor is as it was
UnsortedCodesAndHeadersLeftAlone ==
  /\ Len(requests) = 1
  /\ requests[1].params.successCodes = FrameSuccessCodes
  /\ requests[1].params.headers = FrameHeaders
  /\ requests[1].sent.body = SentBody("object", TRUE)
  /\ has(requests[1].sent.headers, CONTENT_TYPE)
  /\ output.returned = ReturnedPromise(1)
  /\ output.mutated = {}

(***************************************************************************)
(* The default headers (SpecSent)                                          *)
(***************************************************************************)
\* C31: the default-header map changes only by setDefaultHeader, which
\* replaces it by the map with the one header set (the name in lower
\* case) and leaves every header map already handed to Transport as it
\* is; a request, the end of its network path and the settling of its
\* promise leave the default map as it is, whatever headers and body the
\* request has.
DefaultHeadersOnlySetByCaller ==
  [][/\ \A key \in DefaultHeaderNames, value \in DefaultHeaderValues :
          setDefaultHeader(key, value)
          => /\ defaultHeaders' = set(defaultHeaders, toLowerCase(key), value)
             /\ \A id \in DOMAIN requests :
                  requests'[id].sent = requests[id].sent
     /\ defaultHeaders' # defaultHeaders
          => \E key \in DefaultHeaderNames, value \in DefaultHeaderValues :
               setDefaultHeader(key, value)
    ]_vars

\* a POST with an object body was handed its headers with the JSON
\* content-type, a default header was set afterwards, and neither map
\* has the header of the other
DefaultsAndSentMapApart ==
  \E id \in DOMAIN requests :
    /\ TransportPending(id)
    /\ requests[id].sent.body.stringified
    /\ CONTENT_TYPE \in DOMAIN requests[id].sent.headers
    /\ CONTENT_TYPE \notin DOMAIN defaultHeaders
    /\ <<"a">> \in DOMAIN defaultHeaders
    /\ <<"a">> \notin DOMAIN requests[id].sent.headers

(***************************************************************************)
(* useApiQueryReducer (src/src/react/use-api-query/reducer.tsx)            *)
(***************************************************************************)
\* request ids (symbols) and error values that are dispatched
MaxQueryIds == 2
MaxQueryErrors == 2

QueryIds == 1..MaxQueryIds
QueryParamsIds == {"p", "q", "r"}
QueryData == {Null, Obj(1), Obj(2), Obj(3)}
QueryError(n) == [type |-> "error", v |-> n]
QueryErrors == { QueryError(n) : n \in 1..MaxQueryErrors }

\* the actions of useApiQueryActions: a type and a payload, the payload
\* properties an action does not have being left at null / false
QueryAction(type, id, paramsId, data, error, flag) ==
  [type |-> type, id |-> id, paramsId |-> paramsId, data |-> data,
   error |-> error, flag |-> flag]

QueryActions ==
  {QueryAction("reset", NoId, NoParamsId, Null, Null, FALSE)}
  \cup {QueryAction("request", id, paramsId, initData, Null,
                    dontReinitialize) :
          id \in QueryIds, paramsId \in QueryParamsIds,
          initData \in QueryData, dontReinitialize \in BOOLEAN}
  \cup {QueryAction("success", id, paramsId, data, Null, FALSE) :
          id \in QueryIds, paramsId \in QueryParamsIds, data \in QueryData}
  \cup {QueryAction("failure", id, paramsId, Null, error, FALSE) :
          id \in QueryIds, paramsId \in QueryParamsIds,
          error \in QueryErrors}
  \cup {QueryAction("refetchRequest", id, paramsId, Null, Null,
                    reinitialize) :
          id \in QueryIds, paramsId \in QueryParamsIds,
          reinitialize \in BOOLEAN}
  \cup {QueryAction("setData", NoId, NoParamsId, data, Null, FALSE) :
          data \in QueryData}

\* an isLiveRequest that compares the request ids only
isLiveRequestByIdOnly(prev, action) == action.id = prev.id

\* isLiveRequest
isLiveRequest(prev, action) ==
  action.id = prev.id /\ action.paramsId = prev.paramsId

\* a refetchRequest case without the test of the paramsId
refetchesAnyParams(prev, action) == TRUE

\* `action.payload.paramsId === prev.paramsId`
refetchesSameParams(prev, action) == action.paramsId = prev.paramsId

useApiQueryReducer(prev, action) ==
  CASE action.type = "reset" -> INITIAL_STATE
    [] action.type = "request" ->
         [prev EXCEPT !.id = action.id,
                      !.paramsId = action.paramsId,
                      !.loading = TRUE,
                      !.data = IF Truthy(action.data) THEN action.data
                               ELSE IF action.flag THEN prev.data
                               ELSE Null]
    [] action.type = "success" ->
         IF isLiveRequest(prev, action)
           THEN [prev EXCEPT !.loading = FALSE, !.data = action.data,
                             !.error = Null]
           ELSE prev
    [] action.type = "failure" ->
         IF isLiveRequest(prev, action)
           THEN [prev EXCEPT !.loading = FALSE, !.data = Null,
                             !.error = action.error]
           ELSE prev
    [] action.type = "refetchRequest" ->
         IF refetchesSameParams(prev, action)
           THEN [prev EXCEPT !.id = action.id,
                             !.paramsId = action.paramsId,
                             !.loading = TRUE,
                             !.data = IF action.flag THEN Null
                                      ELSE prev.data]
           ELSE prev
    [] action.type = "setData" -> [prev EXCEPT !.data = action.data]
    [] OTHER -> prev

\* an action is dispatched to the reducer
dispatch(action) ==
  /\ queryState' = useApiQueryReducer(queryState, action)
  /\ UNCHANGED <<constructed, defaultHeaders, emitter, responseBodyCache,
                 inProgressRequestCache, requests, microtasks, output,
                 numOccurringMutations, mutations, sharedPromises>>

NextQuery == \E action \in QueryActions : dispatch(action)

SpecQuery == Init /\ [][NextQuery]_vars

\* C32: a success or failure action is applied only if its request id and
\* its paramsId are the ones of the state: then loading is false, and data
\* and error are those of the response; otherwise the state is returned
\* unchanged.
OnlyLiveResponsesApplied ==
  [][\A action \in QueryActions :
       (action.type \in {"success", "failure"} /\ dispatch(action))
       => IF action.id = queryState.id
             /\ action.paramsId = queryState.paramsId
            THEN queryState' =
                   [queryState EXCEPT !.loading = FALSE,
                                      !.data = action.data,
                                      !.error = action.error]
            ELSE queryState' = queryState
    ]_vars

\* the state holds the data of a request while the latest request, with
\* the same id and another paramsId, is loading: a success of the first
\* one would be late
SupersededBySameIdOtherParams ==
  /\ queryState.id = 1
  /\ queryState.paramsId = "q"
  /\ queryState.loading
  /\ queryState.data = Obj(1)
  /\ queryState.error = Null

\* C33: a refetchRequest action whose paramsId differs from the one of the
\* state leaves the state unchanged; when it is the same, loading becomes
\* true, the id becomes the id of the refetch, and data is kept unless
\* reinitialize is set, which makes it null.
RefetchOnlyForSameParams ==
  [][\A action \in QueryActions :
       (action.type = "refetchRequest" /\ dispatch(action))
       => IF action.paramsId = queryState.paramsId
            THEN queryState' =
                   [queryState EXCEPT !.id = action.id,
                                      !.loading = TRUE,
                                      !.data = IF action.flag THEN Null
                                               ELSE queryState.data]
            ELSE queryState' = queryState
    ]_vars

\* a refetch with another id has taken over a request that had failed:
\* it is loading, the data and the error are those the state had
RefetchTookOver ==
  /\ queryState.id = 2
  /\ queryState.paramsId = "p"
  /\ queryState.loading
  /\ queryState.data = Obj(2)
  /\ queryState.error = QueryError(1)

(***************************************************************************)
(* cache-only calls and shared state (SpecCache)                           *)
(***************************************************************************)
\* C34: a cache-only call, on a hit or on a miss, changes nothing that is
\* shared: no network path starts (Transport is not invoked), the
\* in-flight registry and requestInProgress are as they were, the cache
\* is as it was, no cache update and no error is emitted; the call is
\* handed the cached value or the ApiCacheMissError.
CacheOnlyTouchesNothing ==
  [][\A params \in CacheDescriptors, options \in CacheOptions :
       (/\ options.fetchPolicy = "cache-only"
        /\ request(params, options, FALSE))
       => /\ requests' = requests
          /\ microtasks' = microtasks
          /\ inProgressRequestCache' = inProgressRequestCache
          /\ requestInProgress(params)' = requestInProgress(params)
          /\ responseBodyCache' = responseBodyCache
          /\ defaultHeaders' = defaultHeaders
          /\ emitter' = emitter
          /\ output'.cacheUpdates = <<>>
          /\ output'.errors = <<>>
          /\ output'.invoked = <<>>
          /\ output'.returned \in
               {ReturnedCacheMiss,
                ReturnedCached(get(responseBodyCache, getParamsId(params)))}
    ]_vars

\* a cache-only call has just been rejected with ApiCacheMissError while
\* a request for its key is in flight, and the key is still in progress
CacheOnlyMissedWhileFetching ==
  /\ output.returned = ReturnedCacheMiss
  /\ output.errors = <<>>
  /\ Len(requests) = 1
  /\ TransportPending(1)
  /\ requestInProgress(requests[1].params)
  /\ responseBodyCache = EmptyMap

(***************************************************************************)
(* Requests shared by several callers (SpecShared)                         *)
(***************************************************************************)
\* A GET under a policy that writes the cache and under no-cache,
\* deduplicated or not, by an application that keeps the promises of the
\* calls that joined a request in flight.
SharedOptions ==
  {o \in CacheOptions : o.fetchPolicy \in {"no-cache", "cache-first"}}

NextShared ==
  \/ \E params \in CacheDescriptors, options \in SharedOptions :
       requestShared(params, options)
  \/ \E id \in RequestIds :
       \E response \in InFlightResponses(id) :
         TransportResolves(id, response, FALSE)
  \/ \E id \in RequestIds : TransportRejects(id)
  \/ \E id \in RequestIds : createRequestPromise(id)

SpecShared == Init /\ [][NextShared]_vars

\* the calls that hold the promise of network path id besides the call
\* that started it
joinedCalls(id) == {held \in sharedPromises : held.promise = id}

\* C35: a request shared by several deduplicated callers settles once.
\* When its Transport call fails, the one promise all of them hold is
\* rejected with the one error and the error channel delivers that error
\* exactly once, however many callers hold the promise; when it succeeds
\* under a policy other than no-cache, the cache is written and the cache
\* update is delivered exactly once.  No other step (a joining call, the
\* settling of the promise) delivers anything.
SharedRequestSettlesOnce ==
  [][/\ \A id \in RequestIds :
          TransportPending(id) =>
            LET fetch == requests'[id].fetch
                params == requests[id].params
            IN /\ fetch.state = "rejected" =>
                    /\ output'.errors =
                         <<[request |-> id, error |-> fetch.error]>>
                    /\ output'.cacheUpdates = <<>>
                    /\ responseBodyCache' = responseBodyCache
                    /\ joinedCalls(id)' = joinedCalls(id)
               /\ fetch.state = "fulfilled" =>
                    /\ output'.errors = <<>>
                    /\ output'.cacheUpdates =
                         IF requests[id].fetchPolicy # "no-cache"
                           THEN <<[event |-> genCacheUpdateEvent(params),
                                   body |-> fetch.body]>>
                           ELSE <<>>
                    /\ joinedCalls(id)' = joinedCalls(id)
     /\ (\A id \in RequestIds :
           TransportPending(id) => TransportPending(id)')
        => /\ output'.errors = <<>>
           /\ output'.cacheUpdates = <<>>
           /\ responseBodyCache' = responseBodyCache
    ]_vars

\* the Transport call of a request that two deduplicated calls joined has
\* just failed: the error channel delivered the error once, and the
\* promise the three callers hold is about to be rejected with it
SharedRequestFailedOnce ==
  \E id \in RequestIds :
    /\ Cardinality(joinedCalls(id)) >= 2
    /\ output.resumed.id = id
    /\ requests[id].fetch.state = "rejected"
    /\ ~requests[id].settled
    /\ output.errors = <<[request |-> id, error |-> requests[id].fetch.error]>>

\* C36: the in-flight registry holds one entry per key at most (it is a
\* map), and the entry of a key is the one of the network path started
\* last for the key, which has not settled.  A call that is not
\* deduplicated starts a path and puts its entry in the place of the entry
\* of an older path that is pending; a deduplicated call made while the
\* key is in progress starts nothing and is handed the promise of the
\* path started last, also when an older path is still in flight.
RegistryHoldsLatestRequest ==
  [][/\ \A key \in DOMAIN inProgressRequestCache' :
          /\ inProgressRequestCache'[key].id = LatestPath(key)'
          /\ inProgressRequestCache'[key].requestPromise = LatestPath(key)'
          /\ ~requests'[LatestPath(key)'].settled
     /\ \A params \in CacheDescriptors, options \in SharedOptions :
          LET key == getParamsId(params)
              started == Len(requests) + 1
          IN (/\ requestShared(params, options)
              /\ requestRoute(effectiveFetchPolicy(options),
                              readCachedResponse(params)) = "network")
             => IF deduplicate(params, options) /\ requestInProgress(params)
                  THEN /\ requests' = requests
                       /\ inProgressRequestCache' = inProgressRequestCache
                       /\ output'.returned =
                            ReturnedPromise(LatestPath(key))
                       /\ \E held \in sharedPromises' :
                            held.promise = LatestPath(key)
                  ELSE /\ Len(requests') = started
                       /\ inProgressRequestCache'[key].id = started
                       /\ output'.returned = ReturnedPromise(started)
    ]_vars

\* a call that was not deduplicated has put its entry in the place of the
\* entry of a path that is still in flight, and a deduplicated call made
\* after it holds the promise of the newer path, not of the older one
JoinedNewestOfTwoInFlight ==
  /\ Len(requests) = 2
  /\ TransportPending(1)
  /\ TransportPending(2)
  /\ keyOf(1) = keyOf(2)
  /\ get(inProgressRequestCache, keyOf(2)).id = 2
  /\ joinedCalls(2) # {}
  /\ joinedCalls(1) = {}

DefaultsOptions ==
  {o \in CacheOptions : o.fetchPolicy = "cache-first"}

NextDefaults ==
  \/ \E params \in CacheDescriptors, options \in DefaultsOptions :
       request(params, options, FALSE)
  \/ \E id \in RequestIds :
       \E response \in MethodResponses(id) :
         TransportResolves(id, response, FALSE)
  \/ \E id \in RequestIds : createRequestPromise(id)
  \/ \E key \in DefaultHeaderNames, value \in DefaultHeaderValues :
       setDefaultHeader(key, value)

SpecDefaults == Init /\ [][NextDefaults]_vars

\* C38: the key of a descriptor does not depend on the default headers.
\* No step, setDefaultHeader included, changes the key of a descriptor,
\* what the cache holds for it or whether it is in progress other than by
\* the step's own write or registration; so a deduplicated call joins the
\* registered path of its descriptor although the headers Transport was
\* handed for the path are not those it would be handed now, and a
\* call that reads the cache is served what a path of the descriptor
\* wrote, whatever the default headers were then and are now.
KeyIgnoresDefaultHeaders ==
  [][\A params \in CacheDescriptors :
       /\ getParamsId(params)' = getParamsId(params)
       /\ (\E key \in DefaultHeaderNames, value \in DefaultHeaderValues :
             setDefaultHeader(key, value))
          => /\ readCachedResponse(params)' = readCachedResponse(params)
             /\ requestInProgress(params)' = requestInProgress(params)
       /\ \A id \in RequestIds :
            (/\ requests[id].params = params
             /\ TransportPending(id)
             /\ requests'[id].fetch.state = "fulfilled"
             /\ output'.cacheUpdates # <<>>)
            => readCachedResponse(params)' = requests'[id].fetch.body
       /\ \A options \in DefaultsOptions :
            request(params, options, FALSE)
            => LET cachedResponse == readCachedResponse(params)
                   route == requestRoute(effectiveFetchPolicy(options),
                                         cachedResponse)
                   cachedRequest == get(inProgressRequestCache,
                                        getParamsId(params))
               IN /\ route \in {"cached", "cached-and-fetch"}
                     => output'.returned = ReturnedCached(cachedResponse)
                  /\ (/\ route = "network"
                      /\ deduplicate(params, options)
                      /\ \E id \in RequestIds :
                           /\ requests[id].params = params
                           /\ ~requests[id].settled
                           /\ LatestPath(getParamsId(params)) = id)
                     => /\ requests' = requests
                        /\ output'.returned =
                             ReturnedPromise(cachedRequest.requestPromise)
    ]_vars

\* a deduplicated call has just joined a request in flight that was
\* started before setDefaultHeader: the headers Transport was handed for
\* it are not those it would be handed for the call
JoinedAcrossSetDefaultHeader ==
  /\ Len(requests) = 1
  /\ TransportPending(1)
  /\ output.returned = ReturnedPromise(1)
  /\ defaultHeaders # EmptyMap
  /\ requests[1].sent.headers = EmptyMap
  /\ Sent(requests[1].params).headers = defaultHeaders

(***************************************************************************)
(* Termination (SpecLive)                                                  *)
(***************************************************************************)
\* A GET under every fetch policy, deduplicated or not.  Every Transport
\* call settles in the end (the hypothesis), and the job queue runs the
\* continuation of createRequestPromise that is at its head.
NextLive ==
  \/ \E params \in CacheDescriptors, options \in CacheOptions :
       request(params, options, FALSE)
  \/ \E id \in RequestIds :
       \E response \in InFlightResponses(id) :
         TransportResolves(id, response, FALSE)
  \/ \E id \in RequestIds : TransportRejects(id)
  \/ \E id \in RequestIds : createRequestPromise(id)

TransportSettles(id) ==
  \/ \E response \in InFlightResponses(id) :
       TransportResolves(id, response, FALSE)
  \/ TransportRejects(id)

SpecLive ==
  /\ Init
  /\ [][NextLive]_vars
  /\ \A id \in 1..MaxRequests : WF_vars(TransportSettles(id))
  /\ \A id \in 1..MaxRequests : WF_vars(createRequestPromise(id))

\* network path id has started
Started(id) == id \in RequestIds

\* C39: when every Transport call settles in the end, the promise of every
\* network path settles in the end, a refresh started in the background
\* among them, and a key that is in progress is in the end not in
\* progress; a call served from the cache or rejected with
\* ApiCacheMissError is handed its outcome by the call itself, which
\* starts no network path and waits for none.
EveryRequestSettles ==
  /\ \A id \in 1..MaxRequests :
       Started(id) ~> (Started(id) /\ requests[id].settled)
  /\ \A id \in 1..MaxRequests :
       (Started(id) /\ requests[id].background)
         ~> (Started(id) /\ requests[id].settled)
  /\ \A params \in CacheDescriptors :
       requestInProgress(params) ~> ~requestInProgress(params)
  /\ [][\A params \in CacheDescriptors, options \in CacheOptions :
          (/\ request(params, options, FALSE)
           /\ requestRoute(effectiveFetchPolicy(options),
                           readCachedResponse(params))
                \in {"cached", "cache-miss"})
          => /\ output'.returned.kind \in {"cached", "cache-miss"}
             /\ output'.returned.promise = 0
             /\ requests' = requests
             /\ microtasks' = microtasks]_vars

\* two network paths have settled, one fulfilled and written to the cache
\* and one rejected; no key is in progress and the job queue is empty
RefreshSettledAndNothingInProgress ==
  /\ Len(requests) = 2
  /\ \A id \in RequestIds : requests[id].settled
  /\ requests[2].fetch.state = "rejected"
  /\ inProgressRequestCache = EmptyMap
  /\ microtasks = <<>>
  /\ responseBodyCache # EmptyMap

(***************************************************************************)
(* Manual writes during a fetch (SpecCache)                                *)
(***************************************************************************)
\* C40: while the Transport call of a path started under a policy other
\* than no-cache is pending, a writeCachedResponse for its key sets the
\* entry and delivers the cache update of the written body, and leaves
\* the path in flight; when the Transport call then succeeds, the entry
\* becomes the fetched body, whatever was written by hand, and the cache
\* update of the fetched body is delivered, after the one of the manual
\* write; the settling of the promise leaves the cache as it is.
ManualWriteIsOverwritten ==
  [][/\ \A id \in RequestIds :
          (TransportPending(id) /\ requests[id].fetchPolicy # "no-cache")
          => LET params == requests[id].params
                 key == getParamsId(params)
             IN /\ \A responseBody \in ManualBodies :
                     writeCachedResponse(params, responseBody)
                     => /\ responseBodyCache'[key] = responseBody
                        /\ output'.cacheUpdates =
                             <<[event |-> genCacheUpdateEvent(params),
                                body |-> responseBody]>>
                        /\ requests' = requests
                        /\ TransportPending(id)'
                /\ requests'[id].fetch.state = "fulfilled"
                   => /\ responseBodyCache'[key] = requests'[id].fetch.body
                      /\ output'.cacheUpdates =
                           <<[event |-> genCacheUpdateEvent(params),
                              body |-> requests'[id].fetch.body]>>
     /\ \A id \in RequestIds :
          createRequestPromise(id) => responseBodyCache' = responseBodyCache
    ]_vars

\* the Transport call of a cache-first path, started on a miss, has just
\* succeeded and its body is in the cache; while it was in flight a body
\* was written by hand, which a cache-and-fetch call was served before it
\* started the refresh that is still pending
FetchOverwroteManualWrite ==
  /\ Len(requests) = 2
  /\ output.resumed.id = 1
  /\ output.resumed.fetchPolicy = "cache-first"
  /\ requests[1].fetch.state = "fulfilled"
  /\ requests[2].background
  /\ TransportPending(2)
  /\ responseBodyCache[keyOf(1)] = Obj(1)
  /\ output.cacheUpdates =
       <<[event |-> genCacheUpdateEvent(requests[1].params),
          body |-> Obj(1)]>>

====
